---------------------------- MODULE Spec2Model ----------------------------
(***************************************************************************)
(* Model of the text-transformation core of NotesCore (notes-core.js):     *)
(* validateInput, escapeForAppleScript, sanitizeHTML.                      *)
(*                                                                         *)
(* A JavaScript string is a sequence of integers.  An element x >= 0 is    *)
(* one UTF-16 code unit.  An element x < 0 is a run: CountOf(x) copies of  *)
(* the code unit CodeOf(x), so that texts as long as the length limits of  *)
(* the program (255, 50000) stay finite, short values.  Runs               *)
(* are built only from the letter 'a' and the space, which no literal of   *)
(* the program's patterns contains twice in a row, so a run never takes    *)
(* part in a literal match; character classes see a run as its character.  *)
(***************************************************************************)
EXTENDS Integers, Sequences, FiniteSets

(* A call: the function, its argument, the position in it, its outcome *)
VARIABLES pc, fn, vtype, argKind, arg, ret, err

(* What a call works on besides its argument: the exit code of the       *)
(* process, the calls made and events received so far, the local values   *)
(* of an operation, the scripts handed to the interpreter, the timer, the *)
(* child process and the promise of executeAppleScript, and the files     *)
VARIABLES exitCode, events, locals, scripts, timer, osascript, promise, files

outside ==
  <<exitCode, events, locals, scripts, timer, osascript, promise, files>>

vars ==
  <<pc, fn, vtype, argKind, arg, ret, err,
    exitCode, events, locals, scripts, timer, osascript, promise, files>>

(* no process, no interpreter and no file takes part in the call *)
Untouched ==
  /\ exitCode = -1
  /\ events = <<>>
  /\ locals = <<>>
  /\ scripts = <<>>
  /\ timer = "none"
  /\ osascript = "none"
  /\ promise = "none"
  /\ files = <<>>

-----------------------------------------------------------------------------
(* Code units *)

U == [NUL |-> 0, BS |-> 8, TAB |-> 9, LF |-> 10, VT |-> 11, FF |-> 12,
      CR |-> 13, SO |-> 14, US |-> 31, SP |-> 32, DQ |-> 34, SQ |-> 39,
      LPAR |-> 40, RPAR |-> 41, DOT |-> 46, SLASH |-> 47, ZERO |-> 48,
      NINE |-> 57, COLON |-> 58, LT |-> 60, EQ |-> 61, GT |-> 62,
      UA |-> 65, UZ |-> 90, BSL |-> 92, USC |-> 95, a |-> 97, z |-> 122,
      LBRACE |-> 123, RBRACE |-> 125, DEL |-> 127, NBSP |-> 160,
      ZWSP |-> 8203, RLM |-> 8207, LSEP |-> 8232, PSEP |-> 8233,
      LRE |-> 8234, RLO |-> 8238, WJ |-> 8288, INVPLUS |-> 8292,
      ISS |-> 8298, NODS |-> 8303, BOM |-> 65279]

Run(c, n) == 0 - (n * 256 + c)

CodeOf(x) == IF x >= 0 THEN x ELSE (0 - x) % 256

CountOf(x) == IF x >= 0 THEN 1 ELSE (0 - x) \div 256

(* the number of code units of s[i..j], summed by halves *)
RECURSIVE LenBetween(_, _, _)
LenBetween(s, i, j) ==
  IF i > j THEN 0
  ELSE IF i = j THEN CountOf(s[i])
  ELSE LenBetween(s, i, (i + j) \div 2) + LenBetween(s, (i + j) \div 2 + 1, j)

StrLen(s) == LenBetween(s, 1, Len(s))

(* s.substring(0, n) *)
RECURSIVE Substring0(_, _)
Substring0(s, n) ==
  IF s = <<>> \/ n <= 0 THEN <<>>
  ELSE LET x == Head(s)
       IN  IF CountOf(x) <= n
           THEN <<x>> \o Substring0(Tail(s), n - CountOf(x))
           ELSE IF n = 1 THEN <<CodeOf(x)>> ELSE <<Run(CodeOf(x), n)>>

(* ASCII letters of the text "abc...": the code unit of a lower-case letter *)
L(k) == U.a + k

Lc == [a |-> L(0), b |-> L(1), c |-> L(2), d |-> L(3), e |-> L(4),
       f |-> L(5), g |-> L(6), h |-> L(7), i |-> L(8), j |-> L(9),
       k |-> L(10), l |-> L(11), m |-> L(12), n |-> L(13), o |-> L(14),
       p |-> L(15), q |-> L(16), r |-> L(17), s |-> L(18), t |-> L(19),
       u |-> L(20), v |-> L(21), w |-> L(22), x |-> L(23), y |-> L(24)]

(* Canonicalize of the /i flag, on the ASCII range *)
Lower(c) == IF c >= U.UA /\ c <= U.UZ THEN c + 32 ELSE c

(* all code units *)
AnyChar == 0..65535

(* \w *)
WordChars == (U.a..U.z) \cup (U.UA..U.UZ) \cup (U.ZERO..U.NINE) \cup {U.USC}

(* \s *)
SpaceChars ==
  {U.TAB, U.LF, U.VT, U.FF, U.CR, U.SP, U.NBSP, 5760, 8239, 8287, 12288,
   U.LSEP, U.PSEP, U.BOM} \cup (8192..8202)

(* the literal lit occurs in s at position i, ignoring ASCII case *)
LitAt(s, i, lit) ==
  /\ i >= 1
  /\ i + Len(lit) - 1 <= Len(s)
  /\ \A k \in 1..Len(lit) : s[i + k - 1] >= 0 /\ Lower(s[i + k - 1]) = lit[k]

(* \b between positions i-1 and i of s *)
WordAt(s, i) == i >= 1 /\ i <= Len(s) /\ CodeOf(s[i]) \in WordChars

Boundary(s, i) == WordAt(s, i - 1) # WordAt(s, i)

(* the least element of a non-empty set of positions *)
First(positions) == CHOOSE p \in positions : \A q \in positions : p <= q

(* String.prototype.replace with a global pattern and a constant           *)
(* replacement: ml[i] is the length of the pattern's match starting at i   *)
(* (0: no match there); matches are taken left to right, not overlapping.  *)
RECURSIVE ReplaceFrom(_, _, _, _)
ReplaceFrom(s, ml, r, i) ==
  LET at == {k \in i..Len(s) : ml[k] > 0}
      FromMatch(n) == SubSeq(s, i, n - 1) \o r \o ReplaceFrom(s, ml, r, n + ml[n])
  IN  IF at = {} THEN SubSeq(s, i, Len(s)) ELSE FromMatch(First(at))

ReplaceAll(s, ml, r) == ReplaceFrom(s, ml, r, 1)

(* replace(/[class]/g, r) for a character class given as a set of code units *)
ReplaceChars(s, class, r) ==
  ReplaceAll(s, [i \in 1..Len(s) |-> IF CodeOf(s[i]) \in class THEN 1 ELSE 0], r)

(* a greedy [class]*: the first position at or after i not in the class *)
SkipWhile(s, i, class) ==
  CHOOSE j \in i..(Len(s) + 1) :
    /\ \A k \in i..(j - 1) : CodeOf(s[k]) \in class
    /\ (j = Len(s) + 1 \/ CodeOf(s[j]) \notin class)

Contains(s, lit) == \E i \in 1..Len(s) : LitAt(s, i, lit)

-----------------------------------------------------------------------------
(* escapeForAppleScript *)

Tell == <<Lc.t, Lc.e, Lc.l, Lc.l>>

EndWord == <<Lc.e, Lc.n, Lc.d>>

TellNeutral == <<Lc.t, U.USC, Lc.e, U.USC, Lc.l, U.USC, Lc.l>>

EndTellNeutral == <<Lc.e, U.USC, Lc.n, U.USC, Lc.d, U.USC>> \o TellNeutral

(* /\btell\b/gi at position i *)
TellAt(s, i) == LitAt(s, i, Tell) /\ Boundary(s, i) /\ Boundary(s, i + 4)

(* text.replace(/\btell\b/gi, 't_e_l_l') *)
NeutralizeTell(s) ==
  ReplaceAll(s, [i \in 1..Len(s) |-> IF TellAt(s, i) THEN 4 ELSE 0],
             TellNeutral)

(* /\bend\s+tell\b/gi at position i: the length of the match, or 0 *)
EndTellLen(s, i) ==
  IF LitAt(s, i, EndWord) /\ Boundary(s, i)
  THEN LET j == SkipWhile(s, i + 3, SpaceChars)
       IN  IF j > i + 3 /\ LitAt(s, j, Tell) /\ Boundary(s, j + 4)
           THEN j + 4 - i ELSE 0
  ELSE 0

(* text.replace(/\bend\s+tell\b/gi, 'e_n_d_t_e_l_l') *)
NeutralizeEndTell(s) ==
  ReplaceAll(s, [i \in 1..Len(s) |-> EndTellLen(s, i)], EndTellNeutral)

(* [\x00-\x08\x0B\x0C\x0E-\x1F\x7F] *)
StrippedControl ==
  (U.NUL..U.BS) \cup {U.VT, U.FF} \cup (U.SO..U.US) \cup {U.DEL}

(* faulty variant: the class stops at \x1E *)
StripControlShort(s) ==
  ReplaceChars(s, StrippedControl \ {U.US}, <<>>)

StripControl(s) == ReplaceChars(s, StrippedControl, <<>>)

(* [\u2028\u2029] *)
Separators == {U.LSEP, U.PSEP}

StripSeparators(s) == ReplaceChars(s, Separators, <<>>)

(* [\u200B-\u200F\u202A-\u202E\u2060-\u2064\u206A-\u206F\uFEFF] *)
ZeroWidth ==
  (U.ZWSP..U.RLM) \cup (U.LRE..U.RLO) \cup (U.WJ..U.INVPLUS)
    \cup (U.ISS..U.NODS) \cup {U.BOM}

StripZeroWidth(s) == ReplaceChars(s, ZeroWidth, <<>>)

EscN == <<U.BSL, Lc.n>>

EscT == <<U.BSL, Lc.t>>

(* faulty variant: backslashes are left as they are *)
EscapeBackslashesNoop(s) == s

(* .replace(/\\/g, '\\\\') *)
EscapeBackslashes(s) == ReplaceChars(s, {U.BSL}, <<U.BSL, U.BSL>>)

(* .replace(/"/g, '\\"') *)
EscapeQuotes(s) == ReplaceChars(s, {U.DQ}, <<U.BSL, U.DQ>>)

(* .replace(/\r\n/g, '\\n') *)
EscapeCRLF(s) ==
  ReplaceAll(s, [i \in 1..Len(s) |->
                   IF LitAt(s, i, <<U.CR, U.LF>>) THEN 2 ELSE 0], EscN)

(* .replace(/\r/g, '\\n') *)
EscapeCR(s) == ReplaceChars(s, {U.CR}, EscN)

(* .replace(/\n/g, '\\n') *)
EscapeLF(s) == ReplaceChars(s, {U.LF}, EscN)

(* .replace(/[\t]/g, '\\t') *)
EscapeTabs(s) == ReplaceChars(s, {U.TAB}, EscT)

(* .replace(/[\f\v]/g, ' ') *)
SpaceFFVT(s) == ReplaceChars(s, {U.FF, U.VT}, <<U.SP>>)

(* faulty variant: closing braces are kept *)
RemoveCloseBracesNoop(s) == s

(* .replace(/}/g, '') *)
RemoveCloseBraces(s) == ReplaceChars(s, {U.RBRACE}, <<>>)

(* .replace(/{/g, '') *)
RemoveOpenBraces(s) == ReplaceChars(s, {U.LBRACE}, <<>>)

maxLength == 50000

(* '... (truncated)' *)
TruncationMarker ==
  <<U.DOT, U.DOT, U.DOT, U.SP, U.LPAR, Lc.t, Lc.r, Lc.u, Lc.n, Lc.c, Lc.a,
    Lc.t, Lc.e, Lc.d, U.RPAR>>

(* faulty variant: the marker is appended to the whole text *)
TruncateKeepAll(s) ==
  IF StrLen(s) > maxLength THEN s \o TruncationMarker ELSE s

Truncate(s) ==
  IF StrLen(s) > maxLength
  THEN Substring0(s, maxLength) \o TruncationMarker
  ELSE s

(* !text, for a value of the given kind *)
Falsy(kind, s) == kind # "string" \/ s = <<>>

EscapeChain(s) ==
  RemoveOpenBraces(RemoveCloseBraces(SpaceFFVT(EscapeTabs(EscapeLF(EscapeCR(
    EscapeCRLF(EscapeQuotes(EscapeBackslashes(s)))))))))

escapeForAppleScript(kind, text) ==
  IF Falsy(kind, text) THEN <<>>
  ELSE Truncate(EscapeChain(StripZeroWidth(StripSeparators(StripControl(
         NeutralizeEndTell(NeutralizeTell(text)))))))

-----------------------------------------------------------------------------
(* Inputs of the escaper: concatenations of at most MaxEscapeFrags pieces *)

MaxEscapeFrags == 3

(* a run of letters two short of the length limit *)
LongRun == Run(U.a, maxLength - 2)

EscapeFrags ==
  { Tell, <<Lc.t, Lc.e>>, <<Lc.l, Lc.l>>, EndWord, <<U.SP>>, <<U.LBRACE>>,
    <<U.RBRACE>>, <<U.NUL>>, <<U.US>>, <<U.DEL>>, <<U.ZWSP>>, <<U.LSEP>>,
    <<U.DQ>>, <<U.BSL>>, <<U.LF>>, <<U.CR>>, <<U.TAB>>, <<U.FF>>,
    <<LongRun>> }

RECURSIVE Concats(_, _)
Concats(frags, n) ==
  IF n = 0 THEN {<<>>}
  ELSE LET shorter == Concats(frags, n - 1)
       IN  shorter \cup {p \o f : p \in shorter, f \in frags}

EscapeInputs == Concats(EscapeFrags, MaxEscapeFrags)

InitEscape ==
  /\ Untouched
  /\ pc = "call"
  /\ fn = "escapeForAppleScript"
  /\ vtype = "text"
  /\ \/ argKind = "string" /\ arg \in EscapeInputs
     \/ argKind \in {"null", "undefined"} /\ arg = <<>>
  /\ ret = <<>>
  /\ err = "none"

CallEscape ==
  /\ UNCHANGED outside
  /\ pc = "call"
  /\ fn = "escapeForAppleScript"
  /\ ret' = escapeForAppleScript(argKind, arg)
  /\ pc' = "done"
  /\ UNCHANGED <<fn, vtype, argKind, arg, err>>

NextEscape == CallEscape

SpecEscape == InitEscape /\ [][NextEscape]_vars

Escaped == pc = "done" /\ fn = "escapeForAppleScript"

-----------------------------------------------------------------------------
(* Properties of escapeForAppleScript *)

HasTell(s) == \E i \in 1..Len(s) : TellAt(s, i)

HasCode(s, c) == \E i \in 1..Len(s) : CodeOf(s[i]) = c

(* the number of backslashes that immediately precede position i *)
BackslashesBefore(s, i) ==
  LET j == CHOOSE j \in 0..(i - 1) :
             /\ \A k \in (j + 1)..(i - 1) : s[k] = U.BSL
             /\ (j = 0 \/ s[j] # U.BSL)
  IN  i - 1 - j

IsRawControl(c) == (c >= U.NUL /\ c <= U.US) \/ c = U.DEL

(* C1: the value returned by escapeForAppleScript contains no whole-word, *)
(* case-insensitive occurrence of "tell".                                 *)
C1_NoWholeWordTell == Escaped => ~HasTell(ret)

(* C2: every double quote of the value returned by escapeForAppleScript   *)
(* is immediately preceded by an odd number of backslashes.               *)
C2_QuotesEscaped ==
  Escaped =>
    \A i \in 1..Len(ret) :
      ret[i] = U.DQ => BackslashesBefore(ret, i) % 2 = 1

(* an input with a backslash, a brace and a quote came back with a quote  *)
(* behind three or more backslashes                                       *)
C2_Witness ==
  /\ Escaped
  /\ HasCode(arg, U.BSL) /\ HasCode(arg, U.DQ)
  /\ \E i \in 1..Len(ret) : ret[i] = U.DQ /\ BackslashesBefore(ret, i) >= 3

(* C3: the value returned by escapeForAppleScript contains no "{" and no  *)
(* "}", hence no "} ".                                                    *)
C3_NoBraces ==
  Escaped => ~HasCode(ret, U.LBRACE) /\ ~HasCode(ret, U.RBRACE)

(* an input holding "} " was escaped to a non-empty value *)
C3_Witness ==
  /\ Escaped
  /\ \E i \in 1..Len(arg) : LitAt(arg, i, <<U.RBRACE, U.SP>>)
  /\ HasCode(arg, U.LBRACE)
  /\ ret # <<>>

(* C4: the value returned by escapeForAppleScript contains no raw         *)
(* character in 0x00-0x1F or 0x7F; a tab, CR or LF of the input shows as  *)
(* the two-character escape backslash-t or backslash-n (unless cut off by *)
(* the truncation).                                                       *)
C4_NoRawControl ==
  Escaped =>
    /\ \A i \in 1..Len(ret) : ~IsRawControl(CodeOf(ret[i]))
    /\ (StrLen(ret) <= maxLength /\ HasCode(arg, U.TAB)) => Contains(ret, EscT)
    /\ (StrLen(ret) <= maxLength /\ (HasCode(arg, U.CR) \/ HasCode(arg, U.LF)))
         => Contains(ret, EscN)

(* an input with a stripped control character, a CR and a tab was escaped *)
C4_Witness ==
  /\ Escaped
  /\ HasCode(arg, U.US) /\ HasCode(arg, U.CR) /\ HasCode(arg, U.TAB)
  /\ Contains(ret, EscN) /\ Contains(ret, EscT)

(* C5 as stated: the value returned by escapeForAppleScript is at most    *)
(* maxLength characters long.                                             *)
C5_AtMostMaxLength == Escaped => StrLen(ret) <= maxLength

(* C5 amended: the value returned by escapeForAppleScript is at most      *)
(* maxLength characters plus the truncation marker long; a value longer   *)
(* than maxLength is exactly maxLength characters followed by the marker. *)
C5_AtMostMaxLengthPlusMarker ==
  Escaped =>
    /\ StrLen(ret) <= maxLength + Len(TruncationMarker)
    /\ StrLen(ret) > maxLength =>
         /\ StrLen(ret) = maxLength + Len(TruncationMarker)
         /\ LitAt(ret, Len(ret) - Len(TruncationMarker) + 1, TruncationMarker)

(* an escaped text longer than maxLength was truncated *)
C5_Witness ==
  /\ Escaped
  /\ StrLen(EscapeChain(arg)) > maxLength + 1
  /\ StrLen(ret) > maxLength

-----------------------------------------------------------------------------
(* sanitizeHTML *)

Script == <<Lc.s, Lc.c, Lc.r, Lc.i, Lc.p, Lc.t>>

Iframe == <<Lc.i, Lc.f, Lc.r, Lc.a, Lc.m, Lc.e>>

Object == <<Lc.o, Lc.b, Lc.j, Lc.e, Lc.c, Lc.t>>

Embed == <<Lc.e, Lc.m, Lc.b, Lc.e, Lc.d>>

Form == <<Lc.f, Lc.o, Lc.r, Lc.m>>

(* const dangerous = ['script', 'iframe', 'object', 'embed', 'form'] *)
dangerous == <<Script, Iframe, Object, Embed, Form>>

OpenTag(tag) == <<U.LT>> \o tag

CloseTag(tag) == <<U.LT, U.SLASH>> \o tag \o <<U.GT>>

JavascriptScheme ==
  <<Lc.j, Lc.a, Lc.v, Lc.a, Lc.s, Lc.c, Lc.r, Lc.i, Lc.p, Lc.t, U.COLON>>

(* position of the first occurrence of lit at or after i, or 0 *)
FirstLit(s, i, lit) ==
  IF \E j \in i..Len(s) : LitAt(s, j, lit)
  THEN CHOOSE j \in i..Len(s) :
         LitAt(s, j, lit) /\ \A k \in i..(j - 1) : ~LitAt(s, k, lit)
  ELSE 0

\* /<script\b[^<]*(?:(?!<\/script>)<[^<]*)*<\/script>/gi at position i:
\* from "<script" at a word boundary to the first "</script>" after it
ScriptElementLen(s, i) ==
  LET open == OpenTag(Script)
      after == i + Len(open)
  IN  IF LitAt(s, i, open) /\ ~WordAt(s, after)
      THEN LET j == FirstLit(s, after, CloseTag(Script))
           IN  IF j > 0 THEN j + Len(CloseTag(Script)) - i ELSE 0
      ELSE 0

RemoveScriptElements(s) ==
  ReplaceAll(s, [i \in 1..Len(s) |-> ScriptElementLen(s, i)], <<>>)

(* ["'] and [^"'] *)
QuoteMarks == {U.DQ, U.SQ}

NotQuoteMarks == AnyChar \ QuoteMarks

\* /\s*on\w+\s*=\s*["'][^"']*["']/gi at position i
EventHandlerLen(s, i) ==
  LET j1 == SkipWhile(s, i, SpaceChars)
  IN  IF ~LitAt(s, j1, <<Lc.o, Lc.n>>) THEN 0
      ELSE LET j2 == SkipWhile(s, j1 + 2, WordChars)
               j3 == SkipWhile(s, j2, SpaceChars)
           IN  IF j2 = j1 + 2 \/ j3 > Len(s) \/ s[j3] # U.EQ THEN 0
               ELSE LET j4 == SkipWhile(s, j3 + 1, SpaceChars)
                    IN  IF j4 > Len(s) \/ s[j4] \notin QuoteMarks THEN 0
                        ELSE LET j5 == SkipWhile(s, j4 + 1, NotQuoteMarks)
                             IN  IF j5 > Len(s) THEN 0 ELSE j5 + 1 - i

RemoveEventHandlers(s) ==
  ReplaceAll(s, [i \in 1..Len(s) |-> EventHandlerLen(s, i)], <<>>)

(* text.replace(/javascript:/gi, '') *)
RemoveJavascriptScheme(s) ==
  ReplaceAll(s, [i \in 1..Len(s) |->
                   IF LitAt(s, i, JavascriptScheme)
                   THEN Len(JavascriptScheme) ELSE 0], <<>>)

(* "." of a pattern without the s flag *)
DotChars == AnyChar \ {U.LF, U.CR, U.LSEP, U.PSEP}

(* [^>] *)
NotGT == AnyChar \ {U.GT}

\* new RegExp(`<${tag}\\b[^>]*>(?:.*?<\\/${tag}>)?`, 'gi') at position i:
\* the open tag up to its ">", and, when "</tag>" follows on the same line,
\* everything up to the first such close tag
DangerousTagLen(s, i, tag) ==
  LET open == OpenTag(tag)
      close == CloseTag(tag)
      after == i + Len(open)
  IN  IF ~(LitAt(s, i, open) /\ ~WordAt(s, after)) THEN 0
      ELSE LET g == SkipWhile(s, after, NotGT)
           IN  IF g > Len(s) THEN 0
               ELSE LET c == FirstLit(s, g + 1, close)
                    IN  IF c > 0 /\ \A k \in (g + 1)..(c - 1) : CodeOf(s[k]) \in DotChars
                        THEN c + Len(close) - i
                        ELSE g + 1 - i

RemoveDangerousTag(s, tag) ==
  ReplaceAll(s, [i \in 1..Len(s) |-> DangerousTagLen(s, i, tag)], <<>>)

(* dangerous.forEach(tag => ...) from the k-th tag on *)
RECURSIVE RemoveDangerousFrom(_, _)
RemoveDangerousFrom(s, k) ==
  IF k > Len(dangerous) THEN s
  ELSE RemoveDangerousFrom(RemoveDangerousTag(s, dangerous[k]), k + 1)

RemoveDangerousTags(s) == RemoveDangerousFrom(s, 1)

sanitizeHTML(text) ==
  RemoveDangerousTags(RemoveJavascriptScheme(RemoveEventHandlers(
    RemoveScriptElements(text))))

-----------------------------------------------------------------------------
(* Inputs of the sanitizer: concatenations of at most MaxHtmlFrags pieces *)

MaxHtmlFrags == 3

HtmlFrags ==
  { OpenTag(Script), <<U.GT>>, CloseTag(Script), OpenTag(Iframe),
    CloseTag(Iframe), OpenTag(Form) \o <<U.GT>>,
    <<U.LT, Lc.s - 32, Lc.c - 32, Lc.r, Lc.i, Lc.p, Lc.t, U.GT>>,
    JavascriptScheme, <<Lc.j, Lc.a, Lc.v, Lc.a>>,
    <<Lc.s, Lc.c, Lc.r, Lc.i, Lc.p, Lc.t, U.COLON>>,
    <<U.SP, Lc.o, Lc.n>>, <<Lc.x, U.EQ, U.DQ, Lc.y, U.DQ>>,
    <<U.SP, U.EQ, U.SP, U.SQ, U.SQ>>, <<U.LF>>, <<Lc.a>>, <<U.SP>> }

HtmlInputs == Concats(HtmlFrags, MaxHtmlFrags)

InitSanitize ==
  /\ Untouched
  /\ pc = "call"
  /\ fn = "sanitizeHTML"
  /\ vtype = "text"
  /\ \/ argKind = "string" /\ arg \in HtmlInputs
     \/ argKind \in {"null", "undefined"} /\ arg = <<>>
  /\ ret = <<>>
  /\ err = "none"

(* sanitizeHTML(arg); text.replace of a value that is not a string throws *)
CallSanitize ==
  /\ UNCHANGED outside
  /\ pc = "call"
  /\ fn = "sanitizeHTML"
  /\ IF argKind = "string"
     THEN /\ ret' = sanitizeHTML(arg)
          /\ pc' = "done"
          /\ err' = err
     ELSE /\ err' = "TypeError"
          /\ pc' = "thrown"
          /\ ret' = ret
  /\ UNCHANGED <<fn, vtype, argKind, arg>>

(* sanitizeHTML applied to the value sanitizeHTML returned *)
CallSanitizeAgain ==
  /\ UNCHANGED outside
  /\ pc = "done"
  /\ fn = "sanitizeHTML"
  /\ arg' = ret
  /\ ret' = sanitizeHTML(ret)
  /\ pc' = "again"
  /\ UNCHANGED <<fn, vtype, argKind, err>>

NextSanitize == CallSanitize \/ CallSanitizeAgain

SpecSanitize == InitSanitize /\ [][NextSanitize]_vars

Sanitized == pc \in {"done", "again"} /\ fn = "sanitizeHTML"

-----------------------------------------------------------------------------
(* Properties of sanitizeHTML *)

(* an attribute on<word>="..." or on<word>='...' starts at position i *)
HandlerAttrAt(s, i) ==
  /\ LitAt(s, i, <<Lc.o, Lc.n>>)
  /\ LET j == SkipWhile(s, i + 2, WordChars)
     IN  /\ j > i + 2
         /\ j + 1 <= Len(s)
         /\ s[j] = U.EQ
         /\ \E q \in {U.DQ, U.SQ} :
              /\ s[j + 1] = q
              /\ \E k \in (j + 2)..Len(s) : s[k] = q

(* C6: the value returned by sanitizeHTML contains, ignoring case, none   *)
(* of "<script", "<iframe", "<object", "<embed", "<form".                 *)
C6_NoDangerousTag ==
  Sanitized => \A k \in 1..Len(dangerous) : ~Contains(ret, OpenTag(dangerous[k]))

(* C7: the value returned by sanitizeHTML contains, ignoring case, no     *)
(* "javascript:".                                                         *)
C7_NoJavascriptScheme == Sanitized => ~Contains(ret, JavascriptScheme)

(* C8: the value returned by sanitizeHTML contains no event-handler       *)
(* attribute on<word>="..." or on<word>='...'.                            *)
C8_NoEventHandler ==
  Sanitized => \A i \in 1..Len(ret) : ~HandlerAttrAt(ret, i)

(* C9: sanitizeHTML is idempotent: sanitizing a sanitized value returns   *)
(* it unchanged.                                                          *)
C9_Idempotent == (pc = "again" /\ fn = "sanitizeHTML") => ret = arg

-----------------------------------------------------------------------------
(* validateInput *)

(* String.prototype.trim *)
Trim(s) ==
  LET first == SkipWhile(s, 1, SpaceChars)
  IN  IF first > Len(s) THEN <<>>
      ELSE LET last == CHOOSE j \in first..Len(s) :
                         /\ CodeOf(s[j]) \notin SpaceChars
                         /\ \A k \in (j + 1)..Len(s) : CodeOf(s[k]) \in SpaceChars
           IN  SubSeq(s, first, last)

TitleMax == 255

ErrInvalid == "Invalid input: expected string"

ErrTooLong == "Title too long (max 255 chars)"

ErrEmpty == "Title cannot be empty"

(* faulty variant: the length of a title is measured after trimming *)
validateInputTrimFirst(kind, input, type) ==
  IF Falsy(kind, input) \/ kind # "string"
  THEN [err |-> ErrInvalid, ret |-> <<>>]
  ELSE IF type = "title" /\ StrLen(Trim(input)) > TitleMax
  THEN [err |-> ErrTooLong, ret |-> <<>>]
  ELSE IF type = "title" /\ StrLen(Trim(input)) = 0
  THEN [err |-> ErrEmpty, ret |-> <<>>]
  ELSE [err |-> "none", ret |-> Trim(input)]

(* the error validateInput throws ("none": it returns) and the value it returns *)
validateInput(kind, input, type) ==
  IF Falsy(kind, input) \/ kind # "string"
  THEN [err |-> ErrInvalid, ret |-> <<>>]
  ELSE IF type = "title" /\ StrLen(input) > TitleMax
  THEN [err |-> ErrTooLong, ret |-> <<>>]
  ELSE IF type = "title" /\ StrLen(Trim(input)) = 0
  THEN [err |-> ErrEmpty, ret |-> <<>>]
  ELSE [err |-> "none", ret |-> Trim(input)]

-----------------------------------------------------------------------------
(* Inputs of the validator: concatenations of at most MaxTitleFrags pieces *)

MaxTitleFrags == 3

TitleFrags ==
  { <<U.SP>>, <<U.TAB>>, <<U.LF>>, <<Lc.a>>, <<Lc.b>>,
    <<Run(U.SP, TitleMax - 1)>>, <<Run(U.a, TitleMax - 1)>> }

TitleInputs == Concats(TitleFrags, MaxTitleFrags)

InitValidate ==
  /\ Untouched
  /\ pc = "call"
  /\ fn = "validateInput"
  /\ vtype \in {"title", "text"}
  /\ \/ argKind = "string" /\ arg \in TitleInputs
     \/ argKind \in {"null", "undefined", "number"} /\ arg = <<>>
  /\ ret = <<>>
  /\ err = "none"

CallValidate ==
  /\ UNCHANGED outside
  /\ pc = "call"
  /\ fn = "validateInput"
  /\ LET r == validateInput(argKind, arg, vtype)
     IN  IF r.err = "none"
         THEN /\ ret' = r.ret
              /\ pc' = "done"
              /\ err' = err
         ELSE /\ err' = r.err
              /\ pc' = "thrown"
              /\ ret' = ret
  /\ UNCHANGED <<fn, vtype, argKind, arg>>

NextValidate == CallValidate

SpecValidate == InitValidate /\ [][NextValidate]_vars

Validated == pc \in {"done", "thrown"} /\ fn = "validateInput"

-----------------------------------------------------------------------------
(* Properties of validateInput *)

(* C10: for a text-typed title whose trimmed form is empty (the empty     *)
(* string or whitespace of any length), validateInput fails with          *)
(* 'Title cannot be empty' and with no other error.                       *)
C10_BlankTitleIsEmptyInput ==
  (Validated /\ vtype = "title" /\ argKind = "string" /\ StrLen(Trim(arg)) = 0)
    => (pc = "thrown" /\ err = ErrEmpty)

(* r is s without its leading and trailing whitespace *)
IsTrimOf(r, s) ==
  \E i \in 1..(Len(s) + 1) : \E j \in 0..Len(s) :
    /\ r = SubSeq(s, i, j)
    /\ \A k \in 1..(i - 1) : CodeOf(s[k]) \in SpaceChars
    /\ \A k \in (j + 1)..Len(s) : CodeOf(s[k]) \in SpaceChars
    /\ r # <<>> => /\ CodeOf(r[1]) \notin SpaceChars
                   /\ CodeOf(r[Len(r)]) \notin SpaceChars

(* C11: validateInput(t, 'title') fails with 'Title too long' for a text  *)
(* longer than 255 characters; a value it returns is t without leading    *)
(* and trailing whitespace, non-empty and at most 255 characters long.    *)
C11_TitleTooLongOrTrimmed ==
  (Validated /\ vtype = "title" /\ argKind = "string") =>
    /\ StrLen(arg) > TitleMax => (pc = "thrown" /\ err = ErrTooLong)
    /\ pc = "done" =>
         /\ IsTrimOf(ret, arg)
         /\ StrLen(ret) > 0
         /\ StrLen(ret) <= TitleMax

(* a title of exactly 255 characters with whitespace around it was *)
(* returned trimmed                                                 *)
C11_Witness ==
  /\ Validated /\ vtype = "title" /\ argKind = "string"
  /\ pc = "done"
  /\ StrLen(arg) = TitleMax
  /\ StrLen(ret) < StrLen(arg)

(* C12: validateInput(b, 'text') returns b trimmed, without raising, for  *)
(* every string b, the empty string and whitespace-only strings included. *)
C12_BodyNeverRejected ==
  (Validated /\ vtype = "text" /\ argKind = "string") =>
    (pc = "done" /\ IsTrimOf(ret, arg))

-----------------------------------------------------------------------------
(* Patterns with captures *)

(* the literal lit occurs in s at position i (pattern without the i flag) *)
LitAtExact(s, i, lit) ==
  /\ i >= 1
  /\ i + Len(lit) - 1 <= Len(s)
  /\ \A k \in 1..Len(lit) : s[i + k - 1] = lit[k]

(* position of the first occurrence of lit at or after i, or 0 *)
IndexOf(s, lit, i) ==
  LET found == {k \in i..Len(s) : LitAt(s, k, lit)}
  IN  IF found = {} THEN 0 ELSE First(found)

(* the line terminators of "^", "$" and "." *)
LineTerminators == {U.LF, U.CR, U.LSEP, U.PSEP}

(* "^" of a pattern with the m flag *)
LineStart(s, i) == i = 1 \/ (i >= 2 /\ i <= Len(s) + 1 /\ CodeOf(s[i - 1]) \in LineTerminators)

(* a pattern that does not match at a position *)
NoMatch == [len |-> 0, rep |-> <<>>]

(* the positions of s where the pattern matches *)
MatchesOf(s, m) == {k \in 1..Len(s) : m[k].len > 0}

(* the first position at or after i where the pattern matches, or 0 *)
NextMatch(at, i) ==
  IF {k \in at : k >= i} = {} THEN 0 ELSE First({k \in at : k >= i})

(* String.prototype.replace with a global pattern: m[i].len is the length *)
(* of the match starting at i (0: none) and m[i].rep what replaces it;    *)
(* the search resumes after each match                                    *)
RECURSIVE ReplaceMatchesFrom(_, _, _, _)
ReplaceMatchesFrom(s, m, at, i) ==
  LET n == NextMatch(at, i)
  IN  IF n = 0 THEN SubSeq(s, i, Len(s))
      ELSE SubSeq(s, i, n - 1) \o m[n].rep
             \o ReplaceMatchesFrom(s, m, at, n + m[n].len)

ReplaceMatches(s, m) ==
  IF s = <<>> THEN s ELSE ReplaceMatchesFrom(s, m, MatchesOf(s, m), 1)

(* String.prototype.split('\n') *)
RECURSIVE SplitLines(_)
SplitLines(s) ==
  LET n == IndexOf(s, <<U.LF>>, 1)
  IN  IF n = 0 THEN <<s>>
      ELSE <<SubSeq(s, 1, n - 1)>> \o SplitLines(SubSeq(s, n + 1, Len(s)))

-----------------------------------------------------------------------------
(* convertToHTML *)

(* the literals of the patterns and of their replacements *)
Pat ==
  [ \* '```'
    Fence |-> <<96, 96, 96>>,
    \* '<!--'
    CommentOpen |-> <<60, 33, 45, 45>>,
    \* '-->'
    CommentClose |-> <<45, 45, 62>>,
    \* 'font-family:'
    FontFamily |-> <<102, 111, 110, 116, 45, 102, 97, 109, 105, 108, 121, 58>>,
    \* 'monospace'
    Monospace |-> <<109, 111, 110, 111, 115, 112, 97, 99, 101>>,
    \* 'href="'
    HrefAttr |-> <<104, 114, 101, 102, 61, 34>>,
    \* '\n---\n\n'
    RuleLine |-> <<10, 45, 45, 45, 10, 10>>,
    \* '<br'
    BrOpen |-> <<60, 98, 114>>,
    \* '&nbsp;'
    NbspEntity |-> <<38, 110, 98, 115, 112, 59>>,
    \* '&amp;'
    AmpEntity |-> <<38, 97, 109, 112, 59>>,
    \* '&lt;'
    LtEntity |-> <<38, 108, 116, 59>>,
    \* '&gt;'
    GtEntity |-> <<38, 103, 116, 59>>,
    \* '&quot;'
    QuotEntity |-> <<38, 113, 117, 111, 116, 59>>,
    \* '&#39;'
    AposEntity |-> <<38, 35, 51, 57, 59>> ]

(* the HTML that convertToHTML writes *)
Html ==
  [ \* '<blockquote style="background:#f5f5f5;padding:12px;border-left:4px solid #ddd;font-family:monospace;white-space:pre-wrap">'
    BlockquoteOpen |-> <<60, 98, 108, 111, 99, 107, 113, 117, 111, 116, 101,
      32, 115, 116, 121, 108, 101, 61, 34, 98, 97, 99, 107, 103, 114, 111,
      117, 110, 100, 58, 35, 102, 53, 102, 53, 102, 53, 59, 112, 97, 100,
      100, 105, 110, 103, 58, 49, 50, 112, 120, 59, 98, 111, 114, 100,
      101, 114, 45, 108, 101, 102, 116, 58, 52, 112, 120, 32, 115, 111,
      108, 105, 100, 32, 35, 100, 100, 100, 59, 102, 111, 110, 116, 45,
      102, 97, 109, 105, 108, 121, 58, 109, 111, 110, 111, 115, 112, 97,
      99, 101, 59, 119, 104, 105, 116, 101, 45, 115, 112, 97, 99, 101, 58,
      112, 114, 101, 45, 119, 114, 97, 112, 34, 62>>,
    \* '</blockquote>'
    BlockquoteClose |-> <<60, 47, 98, 108, 111, 99, 107, 113, 117, 111, 116,
      101, 62>>,
    \* '<code style="background:#f0f0f0;padding:2px 6px;border-radius:3px;font-family:monospace">'
    CodeOpen |-> <<60, 99, 111, 100, 101, 32, 115, 116, 121, 108, 101, 61, 34,
      98, 97, 99, 107, 103, 114, 111, 117, 110, 100, 58, 35, 102, 48, 102,
      48, 102, 48, 59, 112, 97, 100, 100, 105, 110, 103, 58, 50, 112, 120,
      32, 54, 112, 120, 59, 98, 111, 114, 100, 101, 114, 45, 114, 97, 100,
      105, 117, 115, 58, 51, 112, 120, 59, 102, 111, 110, 116, 45, 102,
      97, 109, 105, 108, 121, 58, 109, 111, 110, 111, 115, 112, 97, 99,
      101, 34, 62>>,
    \* '</code>'
    CodeClose |-> <<60, 47, 99, 111, 100, 101, 62>>,
    \* '<h3 style="font-size:20px;margin:20px 0 16px">'
    H3Open |-> <<60, 104, 51, 32, 115, 116, 121, 108, 101, 61, 34, 102, 111,
      110, 116, 45, 115, 105, 122, 101, 58, 50, 48, 112, 120, 59, 109, 97,
      114, 103, 105, 110, 58, 50, 48, 112, 120, 32, 48, 32, 49, 54, 112,
      120, 34, 62>>,
    \* '<h2 style="font-size:24px;margin:24px 0 16px">'
    H2Open |-> <<60, 104, 50, 32, 115, 116, 121, 108, 101, 61, 34, 102, 111,
      110, 116, 45, 115, 105, 122, 101, 58, 50, 52, 112, 120, 59, 109, 97,
      114, 103, 105, 110, 58, 50, 52, 112, 120, 32, 48, 32, 49, 54, 112,
      120, 34, 62>>,
    \* '<h1 style="font-size:28px;margin:28px 0 20px">'
    H1Open |-> <<60, 104, 49, 32, 115, 116, 121, 108, 101, 61, 34, 102, 111,
      110, 116, 45, 115, 105, 122, 101, 58, 50, 56, 112, 120, 59, 109, 97,
      114, 103, 105, 110, 58, 50, 56, 112, 120, 32, 48, 32, 50, 48, 112,
      120, 34, 62>>,
    \* '<li style="margin-bottom:8px">'
    LiOpen |-> <<60, 108, 105, 32, 115, 116, 121, 108, 101, 61, 34, 109, 97,
      114, 103, 105, 110, 45, 98, 111, 116, 116, 111, 109, 58, 56, 112,
      120, 34, 62>>,
    \* '</li>'
    LiClose |-> <<60, 47, 108, 105, 62>>,
    \* '<ul style="margin:16px 0;padding-left:24px">'
    UlOpen |-> <<60, 117, 108, 32, 115, 116, 121, 108, 101, 61, 34, 109, 97,
      114, 103, 105, 110, 58, 49, 54, 112, 120, 32, 48, 59, 112, 97, 100,
      100, 105, 110, 103, 45, 108, 101, 102, 116, 58, 50, 52, 112, 120,
      34, 62>>,
    \* '</ul>'
    UlClose |-> <<60, 47, 117, 108, 62>>,
    \* '<ol style="margin:16px 0;padding-left:24px">'
    OlOpen |-> <<60, 111, 108, 32, 115, 116, 121, 108, 101, 61, 34, 109, 97,
      114, 103, 105, 110, 58, 49, 54, 112, 120, 32, 48, 59, 112, 97, 100,
      100, 105, 110, 103, 45, 108, 101, 102, 116, 58, 50, 52, 112, 120,
      34, 62>>,
    \* '</ol>'
    OlClose |-> <<60, 47, 111, 108, 62>>,
    \* '<strong>'
    StrongOpen |-> <<60, 115, 116, 114, 111, 110, 103, 62>>,
    \* '</strong>'
    StrongClose |-> <<60, 47, 115, 116, 114, 111, 110, 103, 62>>,
    \* '<em>'
    EmOpen |-> <<60, 101, 109, 62>>,
    \* '</em>'
    EmClose |-> <<60, 47, 101, 109, 62>>,
    \* '<hr style="border:none;border-top:1px solid #ddd;margin:24px 0">'
    HrTag |-> <<60, 104, 114, 32, 115, 116, 121, 108, 101, 61, 34, 98, 111,
      114, 100, 101, 114, 58, 110, 111, 110, 101, 59, 98, 111, 114, 100,
      101, 114, 45, 116, 111, 112, 58, 49, 112, 120, 32, 115, 111, 108,
      105, 100, 32, 35, 100, 100, 100, 59, 109, 97, 114, 103, 105, 110,
      58, 50, 52, 112, 120, 32, 48, 34, 62>>,
    \* '</p><p style="margin:12px 0">'
    ParagraphBreak |-> <<60, 47, 112, 62, 60, 112, 32, 115, 116, 121, 108,
      101, 61, 34, 109, 97, 114, 103, 105, 110, 58, 49, 50, 112, 120, 32,
      48, 34, 62>>,
    \* '<br>'
    BrTag |-> <<60, 98, 114, 62>>,
    \* '<div style="font-size:16px;line-height:1.6;font-family:-apple-system,sans-serif"><p style="margin:12px 0">'
    ContainerOpen |-> <<60, 100, 105, 118, 32, 115, 116, 121, 108, 101, 61,
      34, 102, 111, 110, 116, 45, 115, 105, 122, 101, 58, 49, 54, 112,
      120, 59, 108, 105, 110, 101, 45, 104, 101, 105, 103, 104, 116, 58,
      49, 46, 54, 59, 102, 111, 110, 116, 45, 102, 97, 109, 105, 108, 121,
      58, 45, 97, 112, 112, 108, 101, 45, 115, 121, 115, 116, 101, 109,
      44, 115, 97, 110, 115, 45, 115, 101, 114, 105, 102, 34, 62, 60, 112,
      32, 115, 116, 121, 108, 101, 61, 34, 109, 97, 114, 103, 105, 110,
      58, 49, 50, 112, 120, 32, 48, 34, 62>>,
    \* '</p></div>'
    ContainerClose |-> <<60, 47, 112, 62, 60, 47, 100, 105, 118, 62>> ]

Ch == [BACKTICK |-> 96, STAR |-> 42, DASH |-> 45, HASH |-> 35, AMP |-> 38,
       SEMI |-> 59, BANG |-> 33, LBRACKET |-> 91, RBRACKET |-> 93,
       DOLLAR |-> 36, ONE |-> 49]

HClose(n) == <<U.LT, U.SLASH, Lc.h, U.ZERO + n, U.GT>>

\* /```([\s\S]*?)```/g at position i
RenderCodeBlocks(s) ==
  ReplaceMatches(s, [i \in 1..Len(s) |->
    IF ~LitAt(s, i, Pat.Fence) THEN NoMatch
    ELSE LET j == IndexOf(s, Pat.Fence, i + 3)
         IN  IF j = 0 THEN NoMatch
             ELSE [len |-> j + 3 - i,
                   rep |-> Html.BlockquoteOpen \o SubSeq(s, i + 3, j - 1)
                             \o Html.BlockquoteClose]])

\* /`([^`]+)`/g at position i
RenderInlineCode(s) ==
  ReplaceMatches(s, [i \in 1..Len(s) |->
    IF s[i] # Ch.BACKTICK THEN NoMatch
    ELSE LET j == SkipWhile(s, i + 1, AnyChar \ {Ch.BACKTICK})
         IN  IF j = i + 1 \/ j > Len(s) THEN NoMatch
             ELSE [len |-> j + 1 - i,
                   rep |-> Html.CodeOpen \o SubSeq(s, i + 1, j - 1) \o Html.CodeClose]])

\* /^#{n} (.+)$/gm at position i, n = Len(prefix) - 1
HeadingLineMatch(s, i, prefix, open, close) ==
  IF ~(LineStart(s, i) /\ LitAt(s, i, prefix)) THEN NoMatch
  ELSE LET from == i + Len(prefix)
           e == SkipWhile(s, from, DotChars)
       IN  IF e = from THEN NoMatch
           ELSE [len |-> e - i,
                 rep |-> open \o SubSeq(s, from, e - 1) \o close]

RenderHeading(s, prefix, open, close) ==
  ReplaceMatches(s, [i \in 1..Len(s) |->
                       HeadingLineMatch(s, i, prefix, open, close)])

RenderHeadings(s) ==
  RenderHeading(
    RenderHeading(
      RenderHeading(s, <<Ch.HASH, Ch.HASH, Ch.HASH, U.SP>>, Html.H3Open, HClose(3)),
      <<Ch.HASH, Ch.HASH, U.SP>>, Html.H2Open, HClose(2)),
    <<Ch.HASH, U.SP>>, Html.H1Open, HClose(1))

Digits == U.ZERO..U.NINE

\* the length of /^[\*\-] / ("ul") or /^\d+\. / ("ol") at position p of s, or 0
MarkerLen(s, p, list) ==
  IF list = "ul"
  THEN IF p + 1 <= Len(s) /\ s[p] \in {Ch.STAR, Ch.DASH} /\ s[p + 1] = U.SP
       THEN 2 ELSE 0
  ELSE LET d == SkipWhile(s, p, Digits)
       IN  IF d > p /\ d + 1 <= Len(s) /\ s[d] = U.DOT /\ s[d + 1] = U.SP
           THEN d + 2 - p ELSE 0

\* one round of (?:^[\*\-] .+$\n?) or (?:^\d+\. .+$\n?) at position p:
\* the position after the ".+", or 0
ItemLineEnd(s, p, list) ==
  IF ~(p <= Len(s) /\ LineStart(s, p)) THEN 0
  ELSE LET k == MarkerLen(s, p, list)
           e == SkipWhile(s, p + k, DotChars)
       IN  IF k = 0 \/ e = p + k THEN 0 ELSE e

\* the whole ((?:...)+) from the item line at p: the position after the match
RECURSIVE ListRunEnd(_, _, _)
ListRunEnd(s, p, list) ==
  LET e == ItemLineEnd(s, p, list)
  IN  IF e <= Len(s) /\ s[e] = U.LF
      THEN IF ItemLineEnd(s, e + 1, list) > 0
           THEN ListRunEnd(s, e + 1, list)
           ELSE e + 1
      ELSE e

\* item.replace(/^[\*\-] /, '') or item.replace(/^\d+\. /, ''), in <li>
ListItem(item, list) ==
  Html.LiOpen \o SubSeq(item, MarkerLen(item, 1, list) + 1, Len(item)) \o Html.LiClose

RECURSIVE JoinItems(_, _)
JoinItems(items, list) ==
  IF items = <<>> THEN <<>>
  ELSE ListItem(Head(items), list) \o JoinItems(Tail(items), list)

\* the callback: match.trim().split('\n').map(...).join('')
ListCallback(match, list) ==
  (IF list = "ul" THEN Html.UlOpen ELSE Html.OlOpen)
    \o JoinItems(SplitLines(Trim(match)), list)
    \o (IF list = "ul" THEN Html.UlClose ELSE Html.OlClose)

ListMatch(s, i, list) ==
  IF ItemLineEnd(s, i, list) = 0 THEN NoMatch
  ELSE LET e == ListRunEnd(s, i, list)
       IN  [len |-> e - i, rep |-> ListCallback(SubSeq(s, i, e - 1), list)]

RenderBulletLists(s) ==
  ReplaceMatches(s, [i \in 1..Len(s) |-> ListMatch(s, i, "ul")])

RenderNumberedLists(s) ==
  ReplaceMatches(s, [i \in 1..Len(s) |-> ListMatch(s, i, "ol")])

\* /\*\*([^\*]+)\*\*/g (stars = "**") or /\*([^\*]+)\*/g (stars = "*") at i
EmphasisMatch(s, i, stars, open, close) ==
  IF ~LitAt(s, i, stars) THEN NoMatch
  ELSE LET from == i + Len(stars)
           j == SkipWhile(s, from, AnyChar \ {Ch.STAR})
       IN  IF j = from \/ ~LitAt(s, j, stars) THEN NoMatch
           ELSE [len |-> j + Len(stars) - i,
                 rep |-> open \o SubSeq(s, from, j - 1) \o close]

RenderBold(s) ==
  ReplaceMatches(s, [i \in 1..Len(s) |->
    EmphasisMatch(s, i, <<Ch.STAR, Ch.STAR>>, Html.StrongOpen, Html.StrongClose)])

RenderItalic(s) ==
  ReplaceMatches(s, [i \in 1..Len(s) |->
    EmphasisMatch(s, i, <<Ch.STAR>>, Html.EmOpen, Html.EmClose)])

\* /^---+$/gm at position i
RenderRules(s) ==
  ReplaceMatches(s, [i \in 1..Len(s) |->
    IF ~(LineStart(s, i) /\ s[i] = Ch.DASH) THEN NoMatch
    ELSE LET e == SkipWhile(s, i, {Ch.DASH})
         IN  IF e - i >= 3 /\ (e > Len(s) \/ CodeOf(s[e]) \in LineTerminators)
             THEN [len |-> e - i, rep |-> Html.HrTag]
             ELSE NoMatch])

\* /\n\n+/g at position i
RenderParagraphs(s) ==
  ReplaceMatches(s, [i \in 1..Len(s) |->
    IF s[i] # U.LF THEN NoMatch
    ELSE LET e == SkipWhile(s, i, {U.LF})
         IN  IF e - i >= 2 THEN [len |-> e - i, rep |-> Html.ParagraphBreak]
             ELSE NoMatch])

\* html.replace(/\n/g, '<br>')
RenderLineBreaks(s) ==
  ReplaceMatches(s, [i \in 1..Len(s) |->
    IF s[i] = U.LF THEN [len |-> 1, rep |-> Html.BrTag] ELSE NoMatch])

convertToHTMLItalicFirst(text) ==
  Html.ContainerOpen
    \o RenderLineBreaks(RenderParagraphs(RenderRules(RenderBold(RenderItalic(
         RenderNumberedLists(RenderBulletLists(RenderHeadings(
           RenderInlineCode(RenderCodeBlocks(sanitizeHTML(text)))))))))))
    \o Html.ContainerClose

convertToHTML(text) ==
  Html.ContainerOpen
    \o RenderLineBreaks(RenderParagraphs(RenderRules(RenderItalic(RenderBold(
         RenderNumberedLists(RenderBulletLists(RenderHeadings(
           RenderInlineCode(RenderCodeBlocks(sanitizeHTML(text)))))))))))
    \o Html.ContainerClose

-----------------------------------------------------------------------------
(* convertHTMLToMarkdown *)

(* the element names of the patterns, as code units *)
Name ==
  [ h1 |-> <<104, 49>>,
    h2 |-> <<104, 50>>,
    h3 |-> <<104, 51>>,
    h4 |-> <<104, 52>>,
    h5 |-> <<104, 53>>,
    h6 |-> <<104, 54>>,
    strong |-> <<115, 116, 114, 111, 110, 103>>,
    b |-> <<98>>,
    em |-> <<101, 109>>,
    i |-> <<105>>,
    blockquote |-> <<98, 108, 111, 99, 107, 113, 117, 111, 116, 101>>,
    code |-> <<99, 111, 100, 101>>,
    ul |-> <<117, 108>>,
    ol |-> <<111, 108>>,
    li |-> <<108, 105>>,
    hr |-> <<104, 114>>,
    p |-> <<112>>,
    div |-> <<100, 105, 118>>,
    a |-> <<97>> ]

\* /<!--[\s\S]*?-->/g at position i
RemoveComments(s) ==
  ReplaceMatches(s, [i \in 1..Len(s) |->
    IF ~LitAt(s, i, Pat.CommentOpen) THEN NoMatch
    ELSE LET c == IndexOf(s, Pat.CommentClose, i + 4)
         IN  IF c = 0 THEN NoMatch ELSE [len |-> c + 3 - i, rep |-> <<>>]])

\* /<name[^>]*>([\s\S]*?)<\/name>/gi at position i: the length of the match
\* (0: none) and its capture
ElementAt(s, i, name) ==
  IF ~LitAt(s, i, <<U.LT>> \o name) THEN [len |-> 0, cap |-> <<>>]
  ELSE LET g == SkipWhile(s, i + 1 + Len(name), NotGT)
           c == IF g > Len(s) THEN 0 ELSE IndexOf(s, CloseTag(name), g + 1)
       IN  IF c = 0 THEN [len |-> 0, cap |-> <<>>]
           ELSE [len |-> c + Len(name) + 3 - i, cap |-> SubSeq(s, g + 1, c - 1)]

\* replace(/<name[^>]*>([\s\S]*?)<\/name>/gi, pre + '$1' + post)
ReplaceElement(s, name, pre, post) ==
  ReplaceMatches(s, [i \in 1..Len(s) |->
    LET e == ElementAt(s, i, name)
    IN  IF e.len = 0 THEN NoMatch
        ELSE [len |-> e.len, rep |-> pre \o e.cap \o post]])

Hashes(n) == [k \in 1..n |-> Ch.HASH]

ExtractHeadingOneHash(s, n) ==
  ReplaceElement(s, <<Lc.h, U.ZERO + n>>, Hashes(1) \o <<U.SP>>, <<U.LF, U.LF>>)

ExtractHeading(s, n) ==
  ReplaceElement(s, <<Lc.h, U.ZERO + n>>, Hashes(n) \o <<U.SP>>, <<U.LF, U.LF>>)

ExtractHeadings(s) ==
  ExtractHeading(ExtractHeading(ExtractHeading(ExtractHeading(ExtractHeading(
    ExtractHeading(s, 1), 2), 3), 4), 5), 6)

ExtractEmphasis(s) ==
  ReplaceElement(
    ReplaceElement(
      ReplaceElement(
        ReplaceElement(s, Name.strong, <<Ch.STAR, Ch.STAR>>, <<Ch.STAR, Ch.STAR>>),
        Name.b, <<Ch.STAR, Ch.STAR>>, <<Ch.STAR, Ch.STAR>>),
      Name.em, <<Ch.STAR>>, <<Ch.STAR>>),
    Name.i, <<Ch.STAR>>, <<Ch.STAR>>)

\* /<blockquote[^>]*font-family:\s*monospace[^>]*>([\s\S]*?)<\/blockquote>/gi
ExtractCodeBlocks(s) ==
  ReplaceMatches(s, [i \in 1..Len(s) |->
    IF ~LitAt(s, i, <<U.LT>> \o Name.blockquote) THEN NoMatch
    ELSE LET g == SkipWhile(s, i + 11, NotGT)
             c == IF g > Len(s) THEN 0
                  ELSE IndexOf(s, CloseTag(Name.blockquote), g + 1)
         IN  IF /\ c > 0
                /\ \E p \in (i + 11)..(g - 1) :
                     /\ LitAt(s, p, Pat.FontFamily)
                     /\ LitAt(s, SkipWhile(s, p + 12, SpaceChars), Pat.Monospace)
             THEN [len |-> c + 13 - i,
                   rep |-> Pat.Fence \o <<U.LF>> \o SubSeq(s, g + 1, c - 1)
                             \o <<U.LF>> \o Pat.Fence \o <<U.LF>>]
             ELSE NoMatch])

ExtractInlineCode(s) ==
  ReplaceElement(s, Name.code, <<Ch.BACKTICK>>, <<Ch.BACKTICK>>)

\* content.replace(/<li[^>]*>([\s\S]*?)<\/li>/gi, '- $1\n') + '\n'
UnorderedCallback(content) ==
  ReplaceElement(content, Name.li, <<Ch.DASH, U.SP>>, <<U.LF>>) \o <<U.LF>>

ExtractUnorderedListsNoop(s) == s

ExtractUnorderedLists(s) ==
  ReplaceMatches(s, [i \in 1..Len(s) |->
    LET e == ElementAt(s, i, Name.ul)
    IN  IF e.len = 0 THEN NoMatch
        ELSE [len |-> e.len, rep |-> UnorderedCallback(e.cap)]])

\* the decimal digits of a template literal's ${n}
RECURSIVE Decimal(_)
Decimal(n) ==
  IF n < 10 THEN <<U.ZERO + n>>
  ELSE Decimal(n \div 10) \o <<U.ZERO + (n % 10)>>

\* what the function given to replace returns for the item numbered n: the
\* string `${listCounter}. $1\n`; a function's result is inserted as it is
OrderedItemLine(n, cap) == Decimal(n) \o <<U.DOT, U.SP, Ch.DOLLAR, Ch.ONE, U.LF>>

\* content.replace(/<li[^>]*>([\s\S]*?)<\/li>/gi, () => { listCounter++; ... })
\* from position i with listCounter = counter
RECURSIVE NumberItemsFrom(_, _, _, _)
NumberItemsFrom(content, at, i, counter) ==
  LET n == NextMatch(at, i)
  IN  IF n = 0 THEN SubSeq(content, i, Len(content))
      ELSE LET e == ElementAt(content, n, Name.li)
           IN  SubSeq(content, i, n - 1) \o OrderedItemLine(counter + 1, e.cap)
                 \o NumberItemsFrom(content, at, n + e.len, counter + 1)

\* listCounter = 0; the numbered items + '\n'
OrderedCallback(content) ==
  NumberItemsFrom(content,
                  {k \in 1..Len(content) : ElementAt(content, k, Name.li).len > 0},
                  1, 0) \o <<U.LF>>

ExtractOrderedLists(s) ==
  ReplaceMatches(s, [i \in 1..Len(s) |->
    LET e == ElementAt(s, i, Name.ol)
    IN  IF e.len = 0 THEN NoMatch
        ELSE [len |-> e.len, rep |-> OrderedCallback(e.cap)]])

\* /<hr[^>]*>/gi at position i
ExtractRules(s) ==
  ReplaceMatches(s, [i \in 1..Len(s) |->
    IF ~LitAt(s, i, <<U.LT>> \o Name.hr) THEN NoMatch
    ELSE LET g == SkipWhile(s, i + 3, NotGT)
         IN  IF g > Len(s) THEN NoMatch
             ELSE [len |-> g + 1 - i, rep |-> Pat.RuleLine]])

\* /<br\s*\/?>/gi at position i
ExtractLineBreaks(s) ==
  ReplaceMatches(s, [i \in 1..Len(s) |->
    IF ~LitAt(s, i, Pat.BrOpen) THEN NoMatch
    ELSE LET w == SkipWhile(s, i + 3, SpaceChars)
             g == IF w <= Len(s) /\ s[w] = U.SLASH THEN w + 1 ELSE w
         IN  IF g <= Len(s) /\ s[g] = U.GT
             THEN [len |-> g + 1 - i, rep |-> <<U.LF>>]
             ELSE NoMatch])

ExtractParagraphs(s) ==
  ReplaceElement(ReplaceElement(s, Name.p, <<>>, <<U.LF, U.LF>>),
                 Name.div, <<>>, <<U.LF>>)

\* /<a[^>]*href="([^"]*)"[^>]*>([\s\S]*?)<\/a>/gi with the href=" at p:
\* the greedy [^>]* before it has given back down to p
AnchorWithHrefAt(s, i, p) ==
  IF ~LitAt(s, p, Pat.HrefAttr) THEN NoMatch
  ELSE LET q == SkipWhile(s, p + 6, AnyChar \ {U.DQ})
           g == IF q > Len(s) THEN q ELSE SkipWhile(s, q + 1, NotGT)
           c == IF g > Len(s) THEN 0 ELSE IndexOf(s, CloseTag(Name.a), g + 1)
       IN  IF c = 0 THEN NoMatch
           ELSE [len |-> c + 4 - i,
                 rep |-> <<Ch.LBRACKET>> \o SubSeq(s, g + 1, c - 1)
                           \o <<Ch.RBRACKET, U.LPAR>> \o SubSeq(s, p + 6, q - 1)
                           \o <<U.RPAR>>]

\* the pattern at position i: the last href=" of the tag that lets the rest
\* of the pattern match
AnchorMatch(s, i) ==
  IF ~LitAt(s, i, <<U.LT>> \o Name.a) THEN NoMatch
  ELSE LET g == SkipWhile(s, i + 2, NotGT)
           ok == {p \in (i + 2)..g : AnchorWithHrefAt(s, i, p).len > 0}
       IN  IF ok = {} THEN NoMatch
           ELSE AnchorWithHrefAt(s, i, CHOOSE p \in ok : \A r \in ok : r <= p)

ExtractLinks(s) == ReplaceMatches(s, [i \in 1..Len(s) |-> AnchorMatch(s, i)])

\* /<[^>]+>/g at position i
StripTags(s) ==
  ReplaceMatches(s, [i \in 1..Len(s) |->
    IF s[i] # U.LT THEN NoMatch
    ELSE LET g == SkipWhile(s, i + 1, NotGT)
         IN  IF g = i + 1 \/ g > Len(s) THEN NoMatch
             ELSE [len |-> g + 1 - i, rep |-> <<>>]])

\* replace(/entity/g, r): the pattern has no i flag
DecodeEntity(s, entity, r) ==
  ReplaceMatches(s, [i \in 1..Len(s) |->
    IF LitAtExact(s, i, entity) THEN [len |-> Len(entity), rep |-> r]
    ELSE NoMatch])

DecodeEntities(s) ==
  DecodeEntity(DecodeEntity(DecodeEntity(DecodeEntity(DecodeEntity(DecodeEntity(
    s, Pat.NbspEntity, <<U.SP>>), Pat.AmpEntity, <<Ch.AMP>>), Pat.LtEntity, <<U.LT>>),
    Pat.GtEntity, <<U.GT>>), Pat.QuotEntity, <<U.DQ>>), Pat.AposEntity, <<U.SQ>>)

(* faulty variant: runs of newlines are kept *)
CollapseNewlinesNoop(s) == s

\* /\n{3,}/g at position i
CollapseNewlines(s) ==
  ReplaceMatches(s, [i \in 1..Len(s) |->
    IF s[i] # U.LF THEN NoMatch
    ELSE LET e == SkipWhile(s, i, {U.LF})
         IN  IF e - i >= 3 THEN [len |-> e - i, rep |-> <<U.LF, U.LF>>]
             ELSE NoMatch])

ExtractChain(html) ==
  Trim(CollapseNewlines(DecodeEntities(StripTags(ExtractLinks(
    ExtractParagraphs(ExtractLineBreaks(ExtractRules(ExtractOrderedLists(
      ExtractUnorderedLists(ExtractInlineCode(ExtractCodeBlocks(
        ExtractEmphasis(ExtractHeadings(RemoveComments(html)))))))))))))))

\* !html for a string, null or undefined
NoHtml(kind, html) == kind \in {"null", "undefined"} \/ html = <<>>

convertHTMLToMarkdownUnguarded(kind, html) ==
  IF kind = "string" /\ html = <<>> THEN [err |-> "none", ret |-> <<>>]
  ELSE IF kind # "string" THEN [err |-> "TypeError", ret |-> <<>>]
  ELSE [err |-> "none", ret |-> ExtractChain(html)]

convertHTMLToMarkdown(kind, html) ==
  IF NoHtml(kind, html) THEN [err |-> "none", ret |-> <<>>]
  ELSE [err |-> "none", ret |-> ExtractChain(html)]

-----------------------------------------------------------------------------
(* Calls of convertHTMLToMarkdown *)

MaxItems == 2

(* 'First' *)
TextFirst ==
  <<70, 105, 114, 115, 116>>

(* 'Second' *)
TextSecond ==
  <<83, 101, 99, 111, 110, 100>>

(* 'Heading 1' *)
TextHeading ==
  <<72, 101, 97, 100, 105, 110, 103, 32, 49>>

(* 'Link' *)
TextLink ==
  <<76, 105, 110, 107>>

(* 'https://example.com' *)
UrlExample ==
  <<104, 116, 116, 112, 115, 58, 47, 47, 101, 120, 97, 109, 112, 108, 101,
    46, 99, 111, 109>>

(* ' class="c"' *)
AttrClass ==
  <<32, 99, 108, 97, 115, 115, 61, 34, 99, 34>>

(* ' title="a>b"' *)
AttrTitleGT ==
  <<32, 116, 105, 116, 108, 101, 61, 34, 97, 62, 98, 34>>

(* ' data-href="v"' *)
AttrDataHref ==
  <<32, 100, 97, 116, 97, 45, 104, 114, 101, 102, 61, 34, 118, 34>>

(* ' target="_blank"' *)
AttrTarget ==
  <<32, 116, 97, 114, 103, 101, 116, 61, 34, 95, 98, 108, 97, 110, 107, 34>>

ItemTexts == {TextFirst, TextSecond}

\* the item texts of one list: 1..MaxItems items
ItemLists == UNION {[1..k -> ItemTexts] : k \in 1..MaxItems}

\* one list, or two lists one after the other
ListDocs == {<<l>> : l \in ItemLists} \cup {<<l, m>> : l \in ItemLists, m \in ItemLists}

Element(name, attrs, inner) ==
  OpenTag(name) \o attrs \o <<U.GT>> \o inner \o CloseTag(name)

RECURSIVE ItemElements(_)
ItemElements(items) ==
  IF items = <<>> THEN <<>>
  ELSE Element(Name.li, <<>>, Head(items)) \o ItemElements(Tail(items))

RECURSIVE ListElements(_, _)
ListElements(name, doc) ==
  IF doc = <<>> THEN <<>>
  ELSE Element(name, <<>>, ItemElements(Head(doc)))
         \o ListElements(name, Tail(doc))

OrderedListInputs == {ListElements(Name.ol, d) : d \in ListDocs}

HeadingTexts == {TextHeading, <<Lc.t>>}

\* what comes before a heading element: nothing, text on the same line,
\* a paragraph, a line of text
HeadingBefore ==
  {<<>>, <<Lc.x>>, Element(Name.p, <<>>, <<Lc.x>>), <<Lc.x, U.LF>>}

HeadingAfter == {<<>>, <<Lc.y>>, Element(Name.p, <<>>, <<Lc.y>>)}

HeadingElement(n, t) == Element(<<Lc.h, U.ZERO + n>>, <<>>, t)

HeadingInputs ==
  {pre \o HeadingElement(n, t) \o post :
     pre \in HeadingBefore, n \in 1..6, t \in HeadingTexts, post \in HeadingAfter}

AttrsBefore == {<<>>, AttrClass, AttrTitleGT, AttrDataHref}

AttrsAfter == {<<>>, AttrTarget, AttrDataHref}

HrefValues == {UrlExample, <<>>}

LinkTexts == {TextLink, <<Lc.x>>}

Href(u) == <<U.SP>> \o Pat.HrefAttr \o u \o <<U.DQ>>

AnchorElement(before, u, after, t) ==
  Element(Name.a, before \o Href(u) \o after, t)

AnchorInputs ==
  {AnchorElement(b, u, a, t) :
     b \in AttrsBefore, u \in HrefValues, a \in AttrsAfter, t \in LinkTexts}

\* markdown emphasis: **t** and *t*
Bold(t) == <<Ch.STAR, Ch.STAR>> \o t \o <<Ch.STAR, Ch.STAR>>

Italic(t) == <<Ch.STAR>> \o t \o <<Ch.STAR>>

MaxMixParts == 3

(* '<br>' *)
TagBr ==
  <<60, 98, 114, 62>>

(* '<img src="x">' *)
TagImg ==
  <<60, 105, 109, 103, 32, 115, 114, 99, 61, 34, 120, 34, 62>>

\* pieces of a document, each with the markdown the rules give for it: a
\* letter, a line break, a bold and an italic element, an image (its tag is
\* dropped), a plain blockquote (its tags are dropped)
MixParts ==
  { [html |-> <<Lc.a - 32>>, md |-> <<Lc.a - 32>>],
    [html |-> TagBr, md |-> <<U.LF>>],
    [html |-> Element(Name.b, <<>>, <<Lc.c - 32>>),
     md |-> Bold(<<Lc.c - 32>>)],
    [html |-> Element(Name.i, <<>>, <<Lc.t>>), md |-> Italic(<<Lc.t>>)],
    [html |-> TagImg, md |-> <<>>],
    [html |-> Element(Name.blockquote, <<>>, <<Lc.q>>), md |-> <<Lc.q>>] }

MixDocs == UNION {[1..k -> MixParts] : k \in 1..MaxMixParts}

RECURSIVE MixHtml(_)
MixHtml(d) == IF d = <<>> THEN <<>> ELSE d[1].html \o MixHtml(Tail(d))

RECURSIVE MixMarkdown(_)
MixMarkdown(d) == IF d = <<>> THEN <<>> ELSE d[1].md \o MixMarkdown(Tail(d))

MixInputs == {MixHtml(d) : d \in MixDocs}

MaxEntityFrags == 3

\* whole entities, and the pieces that make an entity out of a decoded "&"
EntityFrags ==
  { Pat.AmpEntity, Pat.LtEntity, Pat.NbspEntity, Pat.AposEntity,
    Tail(Pat.AmpEntity), Tail(Pat.LtEntity), Tail(Pat.GtEntity),
    Tail(Pat.QuotEntity), Tail(Pat.NbspEntity), <<Lc.x>> }

EntityInputs == Concats(EntityFrags, MaxEntityFrags)

MaxSpaceFrags == 4

\* newlines and spaces as they come: typed, as two <br>, as &nbsp;, as a
\* no-break space and a tab, around letters
SpaceFrags ==
  { <<U.LF>>, TagBr \o TagBr, <<U.SP>>, Pat.NbspEntity, <<U.NBSP, U.TAB>>,
    <<U.SP, Lc.x>>, <<Lc.x, U.SP>> }

SpacedInputs == Concats(SpaceFrags, MaxSpaceFrags)

ExtractInputs ==
  {<<>>} \cup OrderedListInputs \cup HeadingInputs \cup AnchorInputs
    \cup MixInputs \cup EntityInputs \cup SpacedInputs

InitExtract ==
  /\ Untouched
  /\ pc = "call"
  /\ fn = "convertHTMLToMarkdown"
  /\ vtype = "text"
  /\ \/ argKind = "string" /\ arg \in ExtractInputs
     \/ argKind \in {"null", "undefined"} /\ arg = <<>>
  /\ ret = <<>>
  /\ err = "none"

CallExtract ==
  /\ UNCHANGED outside
  /\ pc = "call"
  /\ fn = "convertHTMLToMarkdown"
  /\ LET r == convertHTMLToMarkdown(argKind, arg)
     IN  IF r.err = "none"
         THEN /\ ret' = r.ret
              /\ pc' = "done"
              /\ err' = err
         ELSE /\ err' = r.err
              /\ pc' = "thrown"
              /\ ret' = ret
  /\ UNCHANGED <<fn, vtype, argKind, arg>>

NextExtract == CallExtract

SpecExtract == InitExtract /\ [][NextExtract]_vars

Extracted == pc # "call" /\ fn = "convertHTMLToMarkdown"

-----------------------------------------------------------------------------
(* Properties of convertHTMLToMarkdown *)

ContainsExact(s, lit) == \E i \in 1..Len(s) : LitAtExact(s, i, lit)

Occurrences(s, lit) == Cardinality({i \in 1..Len(s) : LitAtExact(s, i, lit)})

(* C14: convertHTMLToMarkdown returns the empty string for the empty string, *)
(* for null and for undefined.                                               *)
C14_EmptyForNoInput ==
  (Extracted /\ (argKind \in {"null", "undefined"} \/ arg = <<>>)) =>
    (pc = "done" /\ err = "none" /\ ret = <<>>)

C14_Witness == Extracted /\ pc = "done" /\ argKind = "undefined" /\ ret = <<>>

NonEmptyLines(s) == SelectSeq(SplitLines(s), LAMBDA l : l # <<>>)

\* the lines "1. text", "2. text", ... of the items of one list, from number k
RECURSIVE NumberedLines(_, _)
NumberedLines(items, k) ==
  IF items = <<>> THEN <<>>
  ELSE <<Decimal(k) \o <<U.DOT, U.SP>> \o Head(items)>>
         \o NumberedLines(Tail(items), k + 1)

RECURSIVE NumberedDocLines(_)
NumberedDocLines(doc) ==
  IF doc = <<>> THEN <<>>
  ELSE NumberedLines(Head(doc), 1) \o NumberedDocLines(Tail(doc))

(* C15: the markdown of ordered lists has one line "N. <item text>" per <li>, *)
(* N counting 1, 2, ... in item order and restarting at 1 for each <ol>.      *)
C15_OrderedItemsNumbered ==
  (Extracted /\ argKind = "string") =>
    \A d \in ListDocs :
      arg = ListElements(Name.ol, d) => NonEmptyLines(ret) = NumberedDocLines(d)

HeadingLine(n, t) == Hashes(n) \o <<U.SP>> \o t

(* C19 as stated: for a heading element of level n with inner text t the    *)
(* markdown has a line made of n "#", a space and t, and a blank line after *)
(* it.                                                                      *)
C19_HeadingLineThenBlankLine ==
  (Extracted /\ argKind = "string") =>
    \A pre \in HeadingBefore, n \in 1..6, t \in HeadingTexts, post \in HeadingAfter :
      arg = pre \o HeadingElement(n, t) \o post =>
        \E i \in 1..Len(ret) :
          /\ LineStart(ret, i)
          /\ LitAtExact(ret, i, HeadingLine(n, t))
          /\ LitAtExact(ret, i + Len(HeadingLine(n, t)), <<U.LF, U.LF>>)

(* C19: for a heading element of level n with inner text t the markdown has *)
(* exactly n "#", a space and t; a blank line follows when content follows  *)
(* the element and nothing follows when the element ends the document; the  *)
(* "#" begin a line when the element begins the document or follows a       *)
(* paragraph or a line break, and follow the preceding text otherwise.      *)
C19_HeadingPrefixMatchesLevel ==
  (Extracted /\ argKind = "string") =>
    \A pre \in HeadingBefore, n \in 1..6, t \in HeadingTexts, post \in HeadingAfter :
      arg = pre \o HeadingElement(n, t) \o post =>
        \E i \in 1..Len(ret) :
          LET after == i + Len(HeadingLine(n, t))
          IN  /\ LitAtExact(ret, i, HeadingLine(n, t))
              /\ i = 1 \/ ret[i - 1] # Ch.HASH
              /\ IF pre = <<Lc.x>> THEN i = 2 /\ ret[1] = Lc.x
                 ELSE LineStart(ret, i) /\ (pre = <<>> <=> i = 1)
              /\ IF post = <<>> THEN after = Len(ret) + 1
                 ELSE /\ LitAtExact(ret, after, <<U.LF, U.LF, Lc.y>>)
                      /\ after + 2 = Len(ret)

C19_Witness ==
  /\ Extracted
  /\ pc = "done"
  /\ arg = Element(Name.p, <<>>, <<Lc.x>>) \o HeadingElement(6, TextHeading) \o <<Lc.y>>
  /\ Contains(ret, <<Ch.HASH, Ch.HASH, Ch.HASH, Ch.HASH, Ch.HASH, Ch.HASH, U.SP>>)

(* C20: an anchor element with href value u and inner text t becomes the *)
(* markdown link [t](u), whatever attributes precede or follow the href.  *)
C20_AnchorBecomesLink ==
  (Extracted /\ argKind = "string") =>
    \A b \in AttrsBefore, u \in HrefValues, a \in AttrsAfter, t \in LinkTexts :
      arg = AnchorElement(b, u, a, t) =>
        ret = <<Ch.LBRACKET>> \o t \o <<Ch.RBRACKET, U.LPAR>> \o u \o <<U.RPAR>>

(* C27: each element rule of convertHTMLToMarkdown applies only to the    *)
(* elements of its own tag name: in a document that mixes text, <br>, <b>, *)
(* <i>, <img> and <blockquote>, every <br> becomes a newline, exactly the  *)
(* content of each <b> is put between two stars on each side and of each   *)
(* <i> between one, and the other tags are dropped (A<br>B<b>C</b> gives   *)
(* A, newline, B, C between pairs of stars).                               *)
C27_RulesMatchExactTagNames ==
  (Extracted /\ argKind = "string") =>
    \A d \in MixDocs :
      arg = MixHtml(d) => ret = Trim(CollapseNewlines(MixMarkdown(d)))

\* the named entities and the character each stands for
Entities ==
  { [name |-> Pat.NbspEntity, char |-> U.SP],
    [name |-> Pat.AmpEntity, char |-> Ch.AMP],
    [name |-> Pat.LtEntity, char |-> U.LT],
    [name |-> Pat.GtEntity, char |-> U.GT],
    [name |-> Pat.QuotEntity, char |-> U.DQ],
    [name |-> Pat.AposEntity, char |-> U.SQ] }

\* one pass from the left: each entity of s is replaced by its character,
\* and the characters written are not read again
DecodedOnce(s) ==
  ReplaceMatches(s, [i \in 1..Len(s) |->
    IF \E e \in Entities : LitAtExact(s, i, e.name)
    THEN LET e == CHOOSE e \in Entities : LitAtExact(s, i, e.name)
         IN  [len |-> Len(e.name), rep |-> <<e.char>>]
    ELSE NoMatch])

(* C28: convertHTMLToMarkdown decodes each occurrence of a named entity   *)
(* exactly once, as one pass from the left would: what decoding wrote is  *)
(* not decoded again (&amp;lt; gives &lt; and &amp;amp; gives &amp;).      *)
C28_EntitiesDecodedOnce ==
  (Extracted /\ argKind = "string" /\ arg \in EntityInputs) =>
    ret = Trim(DecodedOnce(arg))

(* C29: the value returned by convertHTMLToMarkdown contains no run of   *)
(* three or more newlines and neither begins nor ends with whitespace.    *)
C29_NewlinesCollapsedAndTrimmed ==
  (Extracted /\ pc = "done") =>
    /\ ~ContainsExact(ret, <<U.LF, U.LF, U.LF>>)
    /\ ret # <<>> =>
         /\ CodeOf(ret[1]) \notin SpaceChars
         /\ CodeOf(ret[Len(ret)]) \notin SpaceChars

(* a document with four newlines between two letters and a space at each  *)
(* end came back as the letters with one empty line between them          *)
C29_Witness ==
  /\ Extracted
  /\ arg = <<U.SP, Lc.x>> \o TagBr \o TagBr \o TagBr \o TagBr \o <<Lc.x, U.SP>>
  /\ arg \in SpacedInputs
  /\ ret = <<Lc.x, U.LF, U.LF, Lc.x>>

-----------------------------------------------------------------------------
(* Calls of convertToHTML *)

MaxTextFrags == 2

MaxLines == 3

(* 'bold text' *)
TextBold ==
  <<98, 111, 108, 100, 32, 116, 101, 120, 116>>

(* '`c`' *)
TextCode ==
  <<96, 99, 96>>

(* '- a' *)
LineDashA ==
  <<45, 32, 97>>

(* '* b' *)
LineStarB ==
  <<42, 32, 98>>

(* '1. c' *)
LineOneC ==
  <<49, 46, 32, 99>>

(* '2. d' *)
LineTwoD ==
  <<50, 46, 32, 100>>

(* '- a ' *)
LineDashSpace ==
  <<45, 32, 97, 32>>

\* the text between the delimiters of a span
TextFrags == {<<Lc.a>>, <<U.SP>>, <<U.LF>>, <<Ch.DASH>>, TextBold, TextCode}

SpanTexts == Concats(TextFrags, MaxTextFrags)

EmphasisInputs == {Bold(t) : t \in SpanTexts} \cup {Italic(t) : t \in SpanTexts}

\* list lines, a line of text, an empty line, a marker without text
LineKinds ==
  {LineDashA, LineStarB, LineOneC, LineTwoD, LineDashSpace, <<Lc.x>>, <<>>,
   <<Ch.DASH, U.SP>>}

RECURSIVE JoinLines(_)
JoinLines(lines) ==
  IF Len(lines) = 1 THEN lines[1]
  ELSE lines[1] \o <<U.LF>> \o JoinLines(Tail(lines))

LineDocs == UNION {[1..k -> LineKinds] : k \in 1..MaxLines}

LineInputs == {JoinLines(d) : d \in LineDocs}

\* what stands between the fences of a code block: a word, two lines, a
\* line that starts like a heading, like a list item, text between stars
CodeTexts ==
  { <<Lc.x>>, <<U.LF, Lc.x, U.LF>>, <<U.LF, Lc.x, U.LF, Lc.y, U.LF>>,
    <<U.LF, Ch.HASH, U.SP, Lc.x, U.LF>>, <<U.LF>> \o LineDashA \o <<U.LF>>,
    Bold(<<Lc.x>>), <<Lc.x, U.SP, U.SP, Lc.y>> }

Fenced(c) == Pat.Fence \o c \o Pat.Fence

\* a code block alone, after a line of text, before a line of text
FencedInputs ==
  {Fenced(c) : c \in CodeTexts}
    \cup {<<Lc.a, U.LF>> \o Fenced(c) : c \in CodeTexts}
    \cup {Fenced(c) \o <<U.LF, Lc.a>> : c \in CodeTexts}

RenderInputs == EmphasisInputs \cup LineInputs \cup FencedInputs

InitRender ==
  /\ Untouched
  /\ pc = "call"
  /\ fn = "convertToHTML"
  /\ vtype = "text"
  /\ argKind = "string"
  /\ arg \in RenderInputs
  /\ ret = <<>>
  /\ err = "none"

\* a value that is no string has no replace method: the first statement,
\* this.sanitizeHTML(text), throws
CallRender ==
  /\ UNCHANGED outside
  /\ pc = "call"
  /\ fn = "convertToHTML"
  /\ IF argKind = "string"
     THEN /\ ret' = convertToHTML(arg)
          /\ pc' = "done"
          /\ err' = err
     ELSE /\ err' = "TypeError"
          /\ pc' = "thrown"
          /\ ret' = ret
  /\ UNCHANGED <<fn, vtype, argKind, arg>>

NextRender == CallRender

SpecRender == InitRender /\ [][NextRender]_vars

Rendered == pc = "done" /\ fn = "convertToHTML"

-----------------------------------------------------------------------------
(* Properties of convertToHTML *)

SpanText(t) ==
  /\ t # <<>>
  /\ \A k \in 1..Len(t) : t[k] \notin {Ch.STAR, Ch.BACKTICK, U.LT, U.LF, U.CR}

C26_CodeBlockTextUnchanged ==
  Rendered =>
    \A c \in CodeTexts :
      (\E i \in 1..Len(arg) : LitAtExact(arg, i, Fenced(c))) =>
        ContainsExact(ret, Html.BlockquoteOpen \o c \o Html.BlockquoteClose)

\* the kind of list a line belongs to by the way it starts
LineClass(l) ==
  IF Len(l) >= 2 /\ l[1] \in {Ch.STAR, Ch.DASH} /\ l[2] = U.SP THEN "ul"
  ELSE IF \E d \in 1..(Len(l) - 2) :
            /\ \A k \in 1..d : l[k] \in Digits
            /\ l[d + 1] = U.DOT
            /\ l[d + 2] = U.SP
       THEN "ol"
  ELSE "text"

\* the text of a list line: what follows the first space
LineText(l) ==
  LET sp == First({k \in 1..Len(l) : l[k] = U.SP})
  IN  SubSeq(l, sp + 1, Len(l))

\* the first lines of the maximal runs of lines of class c
RunStarts(d, c) ==
  {i \in 1..Len(d) : LineClass(d[i]) = c /\ (i = 1 \/ LineClass(d[i - 1]) # c)}

\* the <li> elements of the run that starts at line i
RECURSIVE RunItems(_, _, _)
RunItems(d, i, c) ==
  IF i > Len(d) \/ LineClass(d[i]) # c THEN <<>>
  ELSE Html.LiOpen \o LineText(d[i]) \o Html.LiClose \o RunItems(d, i + 1, c)

RunElement(d, i, c) ==
  IF c = "ul" THEN Html.UlOpen \o RunItems(d, i, c) \o Html.UlClose
  ELSE Html.OlOpen \o RunItems(d, i, c) \o Html.OlClose

(* C18: every maximal run of lines starting with "* " or "- " becomes one *)
(* <ul> with one <li> per line, in order, holding the line's text; every  *)
(* maximal run of "N. " lines becomes one <ol> likewise; no other list    *)
(* element is produced.                                                   *)
C18_RunsBecomeLists ==
  Rendered =>
    \A d \in LineDocs :
      arg = JoinLines(d) =>
        /\ Occurrences(ret, OpenTag(Name.ul)) = Cardinality(RunStarts(d, "ul"))
        /\ Occurrences(ret, OpenTag(Name.ol)) = Cardinality(RunStarts(d, "ol"))
        /\ \A c \in {"ul", "ol"} : \A i \in RunStarts(d, c) :
             ContainsExact(ret, RunElement(d, i, c))

-----------------------------------------------------------------------------
(* convertToHTML, then convertHTMLToMarkdown of its result *)

MaxBullets == 2

(* 'Heading' *)
TextHeadingWord ==
  <<72, 101, 97, 100, 105, 110, 103>>

(* 'Bold' *)
TextBoldWord ==
  <<66, 111, 108, 100>>

(* 'italic' *)
TextItalicWord ==
  <<105, 116, 97, 108, 105, 99>>

(* 'See ' *)
TextSee ==
  <<83, 101, 101, 32>>

(* ' and ' *)
TextAnd ==
  <<32, 97, 110, 100, 32>>

(* ' text.' *)
TextTail ==
  <<32, 116, 101, 120, 116, 46>>

(* 'Item 1' *)
TextItem1 ==
  <<73, 116, 101, 109, 32, 49>>

(* 'Item 2' *)
TextItem2 ==
  <<73, 116, 101, 109, 32, 50>>

DocHeadings == {TextHeadingWord, TextHeading}

\* what surrounds the two spans of the paragraph
DocParagraphs ==
  [pre : {<<>>, TextSee}, mid : {TextAnd, <<U.SP>>}, post : {<<>>, TextTail}]

DocBullets == UNION {[1..k -> {TextItem1, TextItem2}] : k \in 1..MaxBullets}

Paragraph(q) ==
  q.pre \o Bold(TextBoldWord) \o q.mid \o Italic(TextItalicWord) \o q.post

BulletLines(items) == [k \in 1..Len(items) |-> <<Ch.DASH, U.SP>> \o items[k]]

StructuredDoc(h, q, items) ==
  <<Ch.HASH, U.SP>> \o h \o <<U.LF, U.LF>> \o Paragraph(q) \o <<U.LF, U.LF>>
    \o JoinLines(BulletLines(items))

StructuredInputs ==
  {StructuredDoc(h, q, items) :
     h \in DocHeadings, q \in DocParagraphs, items \in DocBullets}

InitRoundTrip ==
  /\ Untouched
  /\ pc = "call"
  /\ fn = "convertToHTML"
  /\ vtype = "text"
  /\ argKind = "string"
  /\ arg \in StructuredInputs
  /\ ret = <<>>
  /\ err = "none"

\* convertHTMLToMarkdown of the HTML that convertToHTML returned
ExtractRendered ==
  /\ UNCHANGED outside
  /\ pc = "done"
  /\ fn = "convertToHTML"
  /\ ret' = convertHTMLToMarkdown("string", ret).ret
  /\ pc' = "back"
  /\ UNCHANGED <<fn, vtype, argKind, arg, err>>

NextRoundTrip == CallRender \/ ExtractRendered

SpecRoundTrip == InitRoundTrip /\ [][NextRoundTrip]_vars

\* the position after the first occurrences, one after the other from
\* position i, of the parts in s; 0 when a part is missing
RECURSIVE AfterParts(_, _, _)
AfterParts(s, parts, i) ==
  IF parts = <<>> THEN i
  ELSE LET found == {k \in i..Len(s) : LitAtExact(s, k, Head(parts))}
       IN  IF found = {} THEN 0
           ELSE AfterParts(s, Tail(parts), First(found) + Len(Head(parts)))

\* the heading line, the two spans and the bullet lines
StructureParts(h, items) ==
  <<<<Ch.HASH, U.SP>> \o h \o <<U.LF>>, Bold(TextBoldWord),
    Italic(TextItalicWord)>>
    \o [k \in 1..Len(items) |-> <<U.LF>> \o BulletLines(items)[k]]

(* C16: for markdown made of a "# " heading, a paragraph with a bold and an *)
(* italic span and a run of "- " lines, separated by blank lines, the       *)
(* markdown of its HTML has the heading line, the bold span, the italic     *)
(* span and every bullet line, in this order.                               *)
C16_RoundTripKeepsStructure ==
  (pc = "back" /\ fn = "convertToHTML") =>
    \A h \in DocHeadings, q \in DocParagraphs, items \in DocBullets :
      arg = StructuredDoc(h, q, items) =>
        LET after == AfterParts(ret, StructureParts(h, items), 1)
        IN  /\ \E i \in 1..Len(ret) :
                 /\ LineStart(ret, i)
                 /\ i = 1 \/ ret[i - 1] # Ch.HASH
                 /\ LitAtExact(ret, i, <<Ch.HASH, U.SP>> \o h \o <<U.LF>>)
            /\ after > 0
            /\ after = Len(ret) + 1 \/ ret[after] = U.LF

C16_Witness ==
  /\ pc = "back"
  /\ fn = "convertToHTML"
  /\ arg = StructuredDoc(TextHeadingWord,
                         [pre |-> <<>>, mid |-> TextAnd, post |-> TextTail],
                         <<TextItem1, TextItem2>>)
  /\ ContainsExact(ret, <<Ch.DASH, U.SP>> \o TextItem2)

-----------------------------------------------------------------------------
(* One call of any of the four text functions, the argument a string or not *)

TextFunctions ==
  {"escapeForAppleScript", "sanitizeHTML", "convertToHTML",
   "convertHTMLToMarkdown"}

TotalInputs == {<<>>, TextBold, LineDashA} \cup HtmlFrags

InitTotal ==
  /\ Untouched
  /\ pc = "call"
  /\ fn \in TextFunctions
  /\ vtype = "text"
  /\ \/ argKind = "string" /\ arg \in TotalInputs
     \/ argKind \in {"null", "undefined"} /\ arg = <<>>
  /\ ret = <<>>
  /\ err = "none"

NextTotal == CallEscape \/ CallSanitize \/ CallRender \/ CallExtract

SpecTotal == InitTotal /\ [][NextTotal]_vars

(* C13: no call of escapeForAppleScript, sanitizeHTML, convertToHTML or    *)
(* convertHTMLToMarkdown raises, whether the argument is a string, null or *)
(* undefined: each returns a string; escapeForAppleScript returns the      *)
(* empty string for null, undefined and the empty string.                  *)
C13_TextFunctionsTotal ==
  (pc # "call" /\ fn \in TextFunctions) =>
    /\ pc = "done"
    /\ err = "none"
    /\ (fn = "escapeForAppleScript" /\ (argKind # "string" \/ arg = <<>>)) =>
         ret = <<>>

-----------------------------------------------------------------------------
(* The result of escapeForAppleScript read as an AppleScript string body *)

(* the characters that may follow the backslash of an escape:             *)
(* backslash, quote, n, t                                                 *)
EscapedChars == {U.BSL, U.DQ, Lc.n, Lc.t}

(* position i holds the backslash that begins an escape, reading s from   *)
(* the left: the backslashes before it pair up                            *)
BeginsEscape(s, i) == s[i] = U.BSL /\ BackslashesBefore(s, i) % 2 = 0

(* C22: in the result of escapeForAppleScript every backslash, read left  *)
(* to right, begins a two-character escape \\, \", \n or \t; no lone      *)
(* backslash is left, also after truncation at the length limit           *)
C22_NoLoneBackslash ==
  Escaped =>
    \A i \in 1..Len(ret) :
      BeginsEscape(ret, i) => i < Len(ret) /\ ret[i + 1] \in EscapedChars

-----------------------------------------------------------------------------
(* notes-cli: main and the methods of NotesCLI *)

(* args[k - 1]; an argument that was not given reads as the empty string: *)
(* both are falsy and equal to no word the program compares with          *)
Word(args, k) == IF k <= Len(args) THEN args[k] ELSE ""

(* args[args.indexOf(flag) + 1] if the flag is there and a word follows *)
OptionValue(args, flag) ==
  LET at == {k \in 1..Len(args) : args[k] = flag}
  IN  IF at = {} THEN "" ELSE Word(args, First(at) + 1)

(* a method of NotesCLI called with its first argument and, for editNote, *)
(* the options                                                            *)
Method(name, first, args) ==
  [run |-> name, first |-> first,
   title |-> OptionValue(args, "--title"),
   body |-> OptionValue(args, "--body"), code |-> -1]

(* process.exit(code) in main itself *)
Exit(code) ==
  [run |-> "exit", first |-> "", title |-> "", body |-> "", code |-> code]

(* main: what the command line leads to *)
main(args) ==
  LET command == Word(args, 1)
      subCommand == Word(args, 2)
  IN  CASE command \in {"--version", "-v"} -> Exit(0)
        [] command \in {"--update", "-u"} -> Exit(0)
        [] command = "/note" -> Exit(0)
        [] command \in {"", "--help", "-h", "help", "/help"} -> Exit(0)
        [] command = "notes" /\ subCommand = "list" ->
             Method("listNotes", "", args)
        [] command = "folders" /\ subCommand = "list" ->
             Method("listFolders", "", args)
        [] command = "folder" /\ subCommand = "create" ->
             Method("createFolder", Word(args, 3), args)
        [] command = "folder" /\ subCommand = "delete" ->
             Method("deleteFolderCLI", Word(args, 3), args)
        [] command = "note" /\ subCommand = "create" ->
             IF Word(args, 3) = "" THEN Exit(1)
             ELSE Method("createNote", Word(args, 3), args)
        [] command = "note" /\ subCommand = "edit" ->
             Method("editNote", Word(args, 3), args)
        [] command = "note" /\ subCommand = "delete" ->
             Method("deleteNoteCLI", Word(args, 3), args)
        [] command = "note" /\ subCommand \notin {"create", "edit", "delete", ""} ->
             Method("showNote", subCommand, args)
        [] command = "note" /\ subCommand = "" -> Exit(0)
        [] command \in {"list", "--list", "-l"} -> Method("listNotes", "", args)
        [] command = "folders" /\ subCommand = "" ->
             Method("listFolders", "", args)
        [] command \in {"show", "--show", "-s"} ->
             Method("showNote", subCommand, args)
        [] command \in {"create", "add"} ->
             IF subCommand = "" THEN Exit(1)
             ELSE Method("createNote", subCommand, args)
        [] OTHER -> Exit(1)

(* the NotesCore operation each method of NotesCLI awaits *)
CoreOperation ==
  [listNotes |-> "list", listFolders |-> "listFolders",
   createFolder |-> "createFolder", deleteFolderCLI |-> "deleteFolder",
   deleteNoteCLI |-> "deleteNote", showNote |-> "show",
   createNote |-> "create", editNote |-> "update"]

(* faulty variant: the methods hand every argument on to the core *)
ExitsEarlyNever(m) == FALSE

(* the checks at the head of a method that end in process.exit(1) *)
ExitsEarly(m) ==
  \/ m.run \notin {"listNotes", "listFolders"} /\ m.first = ""
  \/ m.run = "editNote" /\ m.title = "" /\ m.body = ""

-----------------------------------------------------------------------------
(* Command lines: at most MaxWords words, then perhaps an option *)

MaxWords == 3

Words ==
  {"--version", "--help", "--update", "notes", "folders", "folder", "note",
   "list", "show", "create", "delete", "edit", "x", ""}

Options == {<<>>, <<"--title", "T">>, <<"--body">>, <<"--limit", "5">>}

Argv ==
  {w \o o : w \in UNION {[1..k -> Words] : k \in 0..MaxWords}, o \in Options}

CoreErrors == {"AppleScript timeout", "Note not found: x"}

InitCli ==
  /\ Untouched
  /\ pc = "main"
  /\ fn = "main"
  /\ vtype = "argv"
  /\ argKind = "argv"
  /\ arg \in Argv
  /\ ret = <<>>
  /\ err = "none"

(* main up to its first await, or to process.exit *)
RunMain ==
  /\ pc = "main"
  /\ fn = "main"
  /\ LET m == main(arg)
     IN  IF m.run = "exit"
         THEN exitCode' = m.code /\ pc' = "exit" /\ events' = events
         ELSE IF ExitsEarly(m)
         THEN exitCode' = 1 /\ pc' = "exit" /\ events' = events
         ELSE /\ events' = Append(events, [call |-> CoreOperation[m.run],
                                            first |-> m.first])
              /\ pc' = "await"
              /\ exitCode' = exitCode
  /\ UNCHANGED <<fn, vtype, argKind, arg, ret, err>>
  /\ UNCHANGED <<locals, scripts, timer, osascript, promise, files>>

(* the operation resolves: the method prints and returns, main exits *)
CoreResolves ==
  /\ pc = "await"
  /\ fn = "main"
  /\ exitCode' = 0
  /\ pc' = "exit"
  /\ UNCHANGED <<fn, vtype, argKind, arg, ret, err>>
  /\ UNCHANGED <<events, locals, scripts, timer, osascript, promise, files>>

(* the operation rejects: the catch block of the method exits *)
CoreRejects ==
  /\ pc = "await"
  /\ fn = "main"
  /\ \E e \in CoreErrors : err' = e
  /\ exitCode' = 1
  /\ pc' = "exit"
  /\ UNCHANGED <<fn, vtype, argKind, arg, ret>>
  /\ UNCHANGED <<events, locals, scripts, timer, osascript, promise, files>>

NextCli == RunMain \/ CoreResolves \/ CoreRejects

SpecCli == InitCli /\ [][NextCli]_vars

(* the event loop runs main and delivers the outcome of the operation *)
SpecCliFair == SpecCli /\ WF_vars(NextCli)

-----------------------------------------------------------------------------
(* Properties of notes-cli *)

(* a command that needs an argument was given without it *)
ArgumentMissing(args) ==
  \/ Word(args, 1) = "show" /\ Word(args, 2) = ""
  \/ /\ Word(args, 1) = "folder"
     /\ Word(args, 2) \in {"create", "delete"}
     /\ Word(args, 3) = ""
  \/ /\ Word(args, 1) = "note"
     /\ Word(args, 2) \in {"create", "edit", "delete"}
     /\ Word(args, 3) = ""

(* the first words the help text and the legacy forms know *)
CommandWords ==
  {"--version", "-v", "--update", "-u", "/note", "--help", "-h", "help",
   "/help", "notes", "folders", "folder", "note", "list", "--list", "-l",
   "show", "--show", "-s", "create", "add"}

CommandUnknown(args) == Word(args, 1) \notin CommandWords \cup {""}

(* --help, --version, no arguments, note without an id *)
NothingToDo(args) ==
  \/ Word(args, 1) \in {"--help", "--version", ""}
  \/ Word(args, 1) = "note" /\ Word(args, 2) = ""

ExitCodes ==
  /\ ArgumentMissing(arg) => events = <<>>
  /\ pc = "exit" =>
       /\ ArgumentMissing(arg) => exitCode = 1
       /\ CommandUnknown(arg) => exitCode = 1
       /\ err # "none" => exitCode = 1
       /\ NothingToDo(arg) => exitCode = 0

(* C21: every CLI invocation terminates; with exit code 1 when a required *)
(* argument is missing (and then no NotesCore operation was invoked), the *)
(* command is unknown or the NotesCore operation rejected; with exit code *)
(* 0 for --help, --version, no arguments and note without an id.          *)
C21_TerminatesWithExitCode ==
  /\ [](fn = "main" => ExitCodes)
  /\ <>(fn = "main" => pc = "exit")

(* folder create without a name has exited with code 1 and no operation   *)
(* of the core was invoked                                                *)
C21_Witness ==
  /\ fn = "main"
  /\ pc = "exit"
  /\ arg = <<"folder", "create">>
  /\ exitCode = 1
  /\ events = <<>>

-----------------------------------------------------------------------------
(* NotesCore: the operations that build a script and hand it to           *)
(* executeAppleScript                                                      *)

(* the values a caller passes: undefined, a string, or a number, whose    *)
(* text is what String(value) gives                                       *)
Undefined == [kind |-> "undefined", text |-> <<>>]

Str(t) == [kind |-> "string", text |-> t]

Num(t) == [kind |-> "number", text |-> t]

(* the value is truthy: not undefined, not '', not 0 *)
Truthy(v) ==
  CASE v.kind = "string" -> v.text # <<>>
    [] v.kind = "number" -> v.text # <<U.ZERO>>
    [] OTHER -> FALSE

(* the script templates of the operations: the text between the `${...}`   *)
(* substitutions, and the name substituted at each of them                  *)
Templates ==
  [ \* lines 1119-1131
    \* | 
    \* |       tell application "Notes"
    \* |         set folderList to {}
    \* |         repeat with aFolder in folders
    \* |           set folderId to id of aFolder
    \* |           set folderName to name of aFolder
    \* |           set folderNoteCount to count of notes in aFolder
    \* |           set end of folderList to folderId & "|||" & folderName & "|||" & folderNoteCount
    \* |         end repeat
    \* |         set AppleScript's text item delimiters to "###"
    \* |         return folderList as text
    \* |       end tell
    \* |     
    listFolders |-> <<
      [slot |-> "", text |->
        <<10, 32, 32, 32, 32, 32, 32, 116, 101, 108, 108, 32, 97, 112, 112,
        108, 105, 99, 97, 116, 105, 111, 110, 32, 34, 78, 111, 116, 101,
        115, 34, 10, 32, 32, 32, 32, 32, 32, 32, 32, 115, 101, 116, 32, 102,
        111, 108, 100, 101, 114, 76, 105, 115, 116, 32, 116, 111, 32, 123,
        125, 10, 32, 32, 32, 32, 32, 32, 32, 32, 114, 101, 112, 101, 97,
        116, 32, 119, 105, 116, 104, 32, 97, 70, 111, 108, 100, 101, 114,
        32, 105, 110, 32, 102, 111, 108, 100, 101, 114, 115, 10, 32, 32, 32,
        32, 32, 32, 32, 32, 32, 32, 115, 101, 116, 32, 102, 111, 108, 100,
        101, 114, 73, 100, 32, 116, 111, 32, 105, 100, 32, 111, 102, 32, 97,
        70, 111, 108, 100, 101, 114, 10, 32, 32, 32, 32, 32, 32, 32, 32, 32,
        32, 115, 101, 116, 32, 102, 111, 108, 100, 101, 114, 78, 97, 109,
        101, 32, 116, 111, 32, 110, 97, 109, 101, 32, 111, 102, 32, 97, 70,
        111, 108, 100, 101, 114, 10, 32, 32, 32, 32, 32, 32, 32, 32, 32, 32,
        115, 101, 116, 32, 102, 111, 108, 100, 101, 114, 78, 111, 116, 101,
        67, 111, 117, 110, 116, 32, 116, 111, 32, 99, 111, 117, 110, 116,
        32, 111, 102, 32, 110, 111, 116, 101, 115, 32, 105, 110, 32, 97, 70,
        111, 108, 100, 101, 114, 10, 32, 32, 32, 32, 32, 32, 32, 32, 32, 32,
        115, 101, 116, 32, 101, 110, 100, 32, 111, 102, 32, 102, 111, 108,
        100, 101, 114, 76, 105, 115, 116, 32, 116, 111, 32, 102, 111, 108,
        100, 101, 114, 73, 100, 32, 38, 32, 34, 124, 124, 124, 34, 32, 38,
        32, 102, 111, 108, 100, 101, 114, 78, 97, 109, 101, 32, 38, 32, 34,
        124, 124, 124, 34, 32, 38, 32, 102, 111, 108, 100, 101, 114, 78,
        111, 116, 101, 67, 111, 117, 110, 116, 10, 32, 32, 32, 32, 32, 32,
        32, 32, 101, 110, 100, 32, 114, 101, 112, 101, 97, 116, 10, 32, 32,
        32, 32, 32, 32, 32, 32, 115, 101, 116, 32, 65, 112, 112, 108, 101,
        83, 99, 114, 105, 112, 116, 39, 115, 32, 116, 101, 120, 116, 32,
        105, 116, 101, 109, 32, 100, 101, 108, 105, 109, 105, 116, 101, 114,
        115, 32, 116, 111, 32, 34, 35, 35, 35, 34, 10, 32, 32, 32, 32, 32,
        32, 32, 32, 114, 101, 116, 117, 114, 110, 32, 102, 111, 108, 100,
        101, 114, 76, 105, 115, 116, 32, 97, 115, 32, 116, 101, 120, 116,
        10, 32, 32, 32, 32, 32, 32, 101, 110, 100, 32, 116, 101, 108, 108,
        10, 32, 32, 32, 32>>] >>,
    \* lines 1160-1169
    \* | 
    \* |       tell application "Notes"
    \* |         try
    \* |           make new folder with properties {name:"${escapedName}"}
    \* |           return "Folder created: ${escapedName}"
    \* |         on error errMsg
    \* |           error "Failed to create folder: " & errMsg
    \* |         end try
    \* |       end tell
    \* |     
    createFolder |-> <<
      [slot |-> "", text |->
        <<10, 32, 32, 32, 32, 32, 32, 116, 101, 108, 108, 32, 97, 112, 112,
        108, 105, 99, 97, 116, 105, 111, 110, 32, 34, 78, 111, 116, 101,
        115, 34, 10, 32, 32, 32, 32, 32, 32, 32, 32, 116, 114, 121, 10, 32,
        32, 32, 32, 32, 32, 32, 32, 32, 32, 109, 97, 107, 101, 32, 110, 101,
        119, 32, 102, 111, 108, 100, 101, 114, 32, 119, 105, 116, 104, 32,
        112, 114, 111, 112, 101, 114, 116, 105, 101, 115, 32, 123, 110, 97,
        109, 101, 58, 34>>],
      [slot |-> "escapedName", text |-> <<>>],
      [slot |-> "", text |->
        <<34, 125, 10, 32, 32, 32, 32, 32, 32, 32, 32, 32, 32, 114, 101,
        116, 117, 114, 110, 32, 34, 70, 111, 108, 100, 101, 114, 32, 99,
        114, 101, 97, 116, 101, 100, 58, 32>>],
      [slot |-> "escapedName", text |-> <<>>],
      [slot |-> "", text |->
        <<34, 10, 32, 32, 32, 32, 32, 32, 32, 32, 111, 110, 32, 101, 114,
        114, 111, 114, 32, 101, 114, 114, 77, 115, 103, 10, 32, 32, 32, 32,
        32, 32, 32, 32, 32, 32, 101, 114, 114, 111, 114, 32, 34, 70, 97,
        105, 108, 101, 100, 32, 116, 111, 32, 99, 114, 101, 97, 116, 101,
        32, 102, 111, 108, 100, 101, 114, 58, 32, 34, 32, 38, 32, 101, 114,
        114, 77, 115, 103, 10, 32, 32, 32, 32, 32, 32, 32, 32, 101, 110,
        100, 32, 116, 114, 121, 10, 32, 32, 32, 32, 32, 32, 101, 110, 100,
        32, 116, 101, 108, 108, 10, 32, 32, 32, 32>>] >>,
    \* lines 1186-1197
    \* | 
    \* |       tell application "Notes"
    \* |         try
    \* |           set theNote to note id "${escapedId}"
    \* |           set noteName to name of theNote
    \* |           delete theNote
    \* |           return "Note deleted: " & noteName
    \* |         on error errMsg
    \* |           error "Note not found: " & errMsg
    \* |         end try
    \* |       end tell
    \* |     
    deleteNote |-> <<
      [slot |-> "", text |->
        <<10, 32, 32, 32, 32, 32, 32, 116, 101, 108, 108, 32, 97, 112, 112,
        108, 105, 99, 97, 116, 105, 111, 110, 32, 34, 78, 111, 116, 101,
        115, 34, 10, 32, 32, 32, 32, 32, 32, 32, 32, 116, 114, 121, 10, 32,
        32, 32, 32, 32, 32, 32, 32, 32, 32, 115, 101, 116, 32, 116, 104,
        101, 78, 111, 116, 101, 32, 116, 111, 32, 110, 111, 116, 101, 32,
        105, 100, 32, 34>>],
      [slot |-> "escapedId", text |-> <<>>],
      [slot |-> "", text |->
        <<34, 10, 32, 32, 32, 32, 32, 32, 32, 32, 32, 32, 115, 101, 116, 32,
        110, 111, 116, 101, 78, 97, 109, 101, 32, 116, 111, 32, 110, 97,
        109, 101, 32, 111, 102, 32, 116, 104, 101, 78, 111, 116, 101, 10,
        32, 32, 32, 32, 32, 32, 32, 32, 32, 32, 100, 101, 108, 101, 116,
        101, 32, 116, 104, 101, 78, 111, 116, 101, 10, 32, 32, 32, 32, 32,
        32, 32, 32, 32, 32, 114, 101, 116, 117, 114, 110, 32, 34, 78, 111,
        116, 101, 32, 100, 101, 108, 101, 116, 101, 100, 58, 32, 34, 32, 38,
        32, 110, 111, 116, 101, 78, 97, 109, 101, 10, 32, 32, 32, 32, 32,
        32, 32, 32, 111, 110, 32, 101, 114, 114, 111, 114, 32, 101, 114,
        114, 77, 115, 103, 10, 32, 32, 32, 32, 32, 32, 32, 32, 32, 32, 101,
        114, 114, 111, 114, 32, 34, 78, 111, 116, 101, 32, 110, 111, 116,
        32, 102, 111, 117, 110, 100, 58, 32, 34, 32, 38, 32, 101, 114, 114,
        77, 115, 103, 10, 32, 32, 32, 32, 32, 32, 32, 32, 101, 110, 100, 32,
        116, 114, 121, 10, 32, 32, 32, 32, 32, 32, 101, 110, 100, 32, 116,
        101, 108, 108, 10, 32, 32, 32, 32>>] >>,
    \* lines 1214-1224
    \* | 
    \* |       tell application "Notes"
    \* |         try
    \* |           set targetFolder to folder "${escapedName}"
    \* |           delete targetFolder
    \* |           return "Folder deleted: ${escapedName}"
    \* |         on error errMsg
    \* |           error "Folder not found: " & errMsg
    \* |         end try
    \* |       end tell
    \* |     
    deleteFolder |-> <<
      [slot |-> "", text |->
        <<10, 32, 32, 32, 32, 32, 32, 116, 101, 108, 108, 32, 97, 112, 112,
        108, 105, 99, 97, 116, 105, 111, 110, 32, 34, 78, 111, 116, 101,
        115, 34, 10, 32, 32, 32, 32, 32, 32, 32, 32, 116, 114, 121, 10, 32,
        32, 32, 32, 32, 32, 32, 32, 32, 32, 115, 101, 116, 32, 116, 97, 114,
        103, 101, 116, 70, 111, 108, 100, 101, 114, 32, 116, 111, 32, 102,
        111, 108, 100, 101, 114, 32, 34>>],
      [slot |-> "escapedName", text |-> <<>>],
      [slot |-> "", text |->
        <<34, 10, 32, 32, 32, 32, 32, 32, 32, 32, 32, 32, 100, 101, 108,
        101, 116, 101, 32, 116, 97, 114, 103, 101, 116, 70, 111, 108, 100,
        101, 114, 10, 32, 32, 32, 32, 32, 32, 32, 32, 32, 32, 114, 101, 116,
        117, 114, 110, 32, 34, 70, 111, 108, 100, 101, 114, 32, 100, 101,
        108, 101, 116, 101, 100, 58, 32>>],
      [slot |-> "escapedName", text |-> <<>>],
      [slot |-> "", text |->
        <<34, 10, 32, 32, 32, 32, 32, 32, 32, 32, 111, 110, 32, 101, 114,
        114, 111, 114, 32, 101, 114, 114, 77, 115, 103, 10, 32, 32, 32, 32,
        32, 32, 32, 32, 32, 32, 101, 114, 114, 111, 114, 32, 34, 70, 111,
        108, 100, 101, 114, 32, 110, 111, 116, 32, 102, 111, 117, 110, 100,
        58, 32, 34, 32, 38, 32, 101, 114, 114, 77, 115, 103, 10, 32, 32, 32,
        32, 32, 32, 32, 32, 101, 110, 100, 32, 116, 114, 121, 10, 32, 32,
        32, 32, 32, 32, 101, 110, 100, 32, 116, 101, 108, 108, 10, 32, 32,
        32, 32>>] >>,
    \* lines 1238-1259
    \* | 
    \* |       tell application "Notes"
    \* |         set noteList to {}
    \* |         set noteCount to 0
    \* |         repeat with aNote in notes
    \* |           if noteCount >= ${limit} then exit repeat
    \* |           set noteId to id of aNote
    \* |           set noteName to name of aNote
    \* |           try
    \* |             set noteFolder to name of container of aNote
    \* |           on error
    \* |             set noteFolder to "Notes"
    \* |           end try
    \* |           set noteCreation to creation date of aNote as string
    \* |           set noteModification to modification date of aNote as string
    \* |           set end of noteList to noteId & "|||" & noteName & "|||" & noteFolder & "|||" & noteCreation & "|||" & noteModification
    \* |           set noteCount to noteCount + 1
    \* |         end repeat
    \* |         set AppleScript's text item delimiters to "###"
    \* |         return noteList as text
    \* |       end tell
    \* |     
    list |-> <<
      [slot |-> "", text |->
        <<10, 32, 32, 32, 32, 32, 32, 116, 101, 108, 108, 32, 97, 112, 112,
        108, 105, 99, 97, 116, 105, 111, 110, 32, 34, 78, 111, 116, 101,
        115, 34, 10, 32, 32, 32, 32, 32, 32, 32, 32, 115, 101, 116, 32, 110,
        111, 116, 101, 76, 105, 115, 116, 32, 116, 111, 32, 123, 125, 10,
        32, 32, 32, 32, 32, 32, 32, 32, 115, 101, 116, 32, 110, 111, 116,
        101, 67, 111, 117, 110, 116, 32, 116, 111, 32, 48, 10, 32, 32, 32,
        32, 32, 32, 32, 32, 114, 101, 112, 101, 97, 116, 32, 119, 105, 116,
        104, 32, 97, 78, 111, 116, 101, 32, 105, 110, 32, 110, 111, 116,
        101, 115, 10, 32, 32, 32, 32, 32, 32, 32, 32, 32, 32, 105, 102, 32,
        110, 111, 116, 101, 67, 111, 117, 110, 116, 32, 62, 61, 32>>],
      [slot |-> "limit", text |-> <<>>],
      [slot |-> "", text |->
        <<32, 116, 104, 101, 110, 32, 101, 120, 105, 116, 32, 114, 101, 112,
        101, 97, 116, 10, 32, 32, 32, 32, 32, 32, 32, 32, 32, 32, 115, 101,
        116, 32, 110, 111, 116, 101, 73, 100, 32, 116, 111, 32, 105, 100,
        32, 111, 102, 32, 97, 78, 111, 116, 101, 10, 32, 32, 32, 32, 32, 32,
        32, 32, 32, 32, 115, 101, 116, 32, 110, 111, 116, 101, 78, 97, 109,
        101, 32, 116, 111, 32, 110, 97, 109, 101, 32, 111, 102, 32, 97, 78,
        111, 116, 101, 10, 32, 32, 32, 32, 32, 32, 32, 32, 32, 32, 116, 114,
        121, 10, 32, 32, 32, 32, 32, 32, 32, 32, 32, 32, 32, 32, 115, 101,
        116, 32, 110, 111, 116, 101, 70, 111, 108, 100, 101, 114, 32, 116,
        111, 32, 110, 97, 109, 101, 32, 111, 102, 32, 99, 111, 110, 116, 97,
        105, 110, 101, 114, 32, 111, 102, 32, 97, 78, 111, 116, 101, 10, 32,
        32, 32, 32, 32, 32, 32, 32, 32, 32, 111, 110, 32, 101, 114, 114,
        111, 114, 10, 32, 32, 32, 32, 32, 32, 32, 32, 32, 32, 32, 32, 115,
        101, 116, 32, 110, 111, 116, 101, 70, 111, 108, 100, 101, 114, 32,
        116, 111, 32, 34, 78, 111, 116, 101, 115, 34, 10, 32, 32, 32, 32,
        32, 32, 32, 32, 32, 32, 101, 110, 100, 32, 116, 114, 121, 10, 32,
        32, 32, 32, 32, 32, 32, 32, 32, 32, 115, 101, 116, 32, 110, 111,
        116, 101, 67, 114, 101, 97, 116, 105, 111, 110, 32, 116, 111, 32,
        99, 114, 101, 97, 116, 105, 111, 110, 32, 100, 97, 116, 101, 32,
        111, 102, 32, 97, 78, 111, 116, 101, 32, 97, 115, 32, 115, 116, 114,
        105, 110, 103, 10, 32, 32, 32, 32, 32, 32, 32, 32, 32, 32, 115, 101,
        116, 32, 110, 111, 116, 101, 77, 111, 100, 105, 102, 105, 99, 97,
        116, 105, 111, 110, 32, 116, 111, 32, 109, 111, 100, 105, 102, 105,
        99, 97, 116, 105, 111, 110, 32, 100, 97, 116, 101, 32, 111, 102, 32,
        97, 78, 111, 116, 101, 32, 97, 115, 32, 115, 116, 114, 105, 110,
        103, 10, 32, 32, 32, 32, 32, 32, 32, 32, 32, 32, 115, 101, 116, 32,
        101, 110, 100, 32, 111, 102, 32, 110, 111, 116, 101, 76, 105, 115,
        116, 32, 116, 111, 32, 110, 111, 116, 101, 73, 100, 32, 38, 32, 34,
        124, 124, 124, 34, 32, 38, 32, 110, 111, 116, 101, 78, 97, 109, 101,
        32, 38, 32, 34, 124, 124, 124, 34, 32, 38, 32, 110, 111, 116, 101,
        70, 111, 108, 100, 101, 114, 32, 38, 32, 34, 124, 124, 124, 34, 32,
        38, 32, 110, 111, 116, 101, 67, 114, 101, 97, 116, 105, 111, 110,
        32, 38, 32, 34, 124, 124, 124, 34, 32, 38, 32, 110, 111, 116, 101,
        77, 111, 100, 105, 102, 105, 99, 97, 116, 105, 111, 110, 10, 32, 32,
        32, 32, 32, 32, 32, 32, 32, 32, 115, 101, 116, 32, 110, 111, 116,
        101, 67, 111, 117, 110, 116, 32, 116, 111, 32, 110, 111, 116, 101,
        67, 111, 117, 110, 116, 32, 43, 32, 49, 10, 32, 32, 32, 32, 32, 32,
        32, 32, 101, 110, 100, 32, 114, 101, 112, 101, 97, 116, 10, 32, 32,
        32, 32, 32, 32, 32, 32, 115, 101, 116, 32, 65, 112, 112, 108, 101,
        83, 99, 114, 105, 112, 116, 39, 115, 32, 116, 101, 120, 116, 32,
        105, 116, 101, 109, 32, 100, 101, 108, 105, 109, 105, 116, 101, 114,
        115, 32, 116, 111, 32, 34, 35, 35, 35, 34, 10, 32, 32, 32, 32, 32,
        32, 32, 32, 114, 101, 116, 117, 114, 110, 32, 110, 111, 116, 101,
        76, 105, 115, 116, 32, 97, 115, 32, 116, 101, 120, 116, 10, 32, 32,
        32, 32, 32, 32, 101, 110, 100, 32, 116, 101, 108, 108, 10, 32, 32,
        32, 32>>] >>,
    \* lines 1293-1305
    \* | 
    \* |       tell application "Notes"
    \* |         try
    \* |           set theNote to note id "${escapedId}"
    \* |           set noteId to id of theNote
    \* |           set noteName to name of theNote
    \* |           set noteBody to body of theNote
    \* |           return noteId & "|||" & noteName & "|||" & noteBody
    \* |         on error errMsg
    \* |           error "Note not found: " & errMsg
    \* |         end try
    \* |       end tell
    \* |     
    show |-> <<
      [slot |-> "", text |->
        <<10, 32, 32, 32, 32, 32, 32, 116, 101, 108, 108, 32, 97, 112, 112,
        108, 105, 99, 97, 116, 105, 111, 110, 32, 34, 78, 111, 116, 101,
        115, 34, 10, 32, 32, 32, 32, 32, 32, 32, 32, 116, 114, 121, 10, 32,
        32, 32, 32, 32, 32, 32, 32, 32, 32, 115, 101, 116, 32, 116, 104,
        101, 78, 111, 116, 101, 32, 116, 111, 32, 110, 111, 116, 101, 32,
        105, 100, 32, 34>>],
      [slot |-> "escapedId", text |-> <<>>],
      [slot |-> "", text |->
        <<34, 10, 32, 32, 32, 32, 32, 32, 32, 32, 32, 32, 115, 101, 116, 32,
        110, 111, 116, 101, 73, 100, 32, 116, 111, 32, 105, 100, 32, 111,
        102, 32, 116, 104, 101, 78, 111, 116, 101, 10, 32, 32, 32, 32, 32,
        32, 32, 32, 32, 32, 115, 101, 116, 32, 110, 111, 116, 101, 78, 97,
        109, 101, 32, 116, 111, 32, 110, 97, 109, 101, 32, 111, 102, 32,
        116, 104, 101, 78, 111, 116, 101, 10, 32, 32, 32, 32, 32, 32, 32,
        32, 32, 32, 115, 101, 116, 32, 110, 111, 116, 101, 66, 111, 100,
        121, 32, 116, 111, 32, 98, 111, 100, 121, 32, 111, 102, 32, 116,
        104, 101, 78, 111, 116, 101, 10, 32, 32, 32, 32, 32, 32, 32, 32, 32,
        32, 114, 101, 116, 117, 114, 110, 32, 110, 111, 116, 101, 73, 100,
        32, 38, 32, 34, 124, 124, 124, 34, 32, 38, 32, 110, 111, 116, 101,
        78, 97, 109, 101, 32, 38, 32, 34, 124, 124, 124, 34, 32, 38, 32,
        110, 111, 116, 101, 66, 111, 100, 121, 10, 32, 32, 32, 32, 32, 32,
        32, 32, 111, 110, 32, 101, 114, 114, 111, 114, 32, 101, 114, 114,
        77, 115, 103, 10, 32, 32, 32, 32, 32, 32, 32, 32, 32, 32, 101, 114,
        114, 111, 114, 32, 34, 78, 111, 116, 101, 32, 110, 111, 116, 32,
        102, 111, 117, 110, 100, 58, 32, 34, 32, 38, 32, 101, 114, 114, 77,
        115, 103, 10, 32, 32, 32, 32, 32, 32, 32, 32, 101, 110, 100, 32,
        116, 114, 121, 10, 32, 32, 32, 32, 32, 32, 101, 110, 100, 32, 116,
        101, 108, 108, 10, 32, 32, 32, 32>>] >>,
    \* lines 1341-1341
    \* | set name of theNote to "${escapedTitle}"
    updateTitle |-> <<
      [slot |-> "", text |->
        <<115, 101, 116, 32, 110, 97, 109, 101, 32, 111, 102, 32, 116, 104,
        101, 78, 111, 116, 101, 32, 116, 111, 32, 34>>],
      [slot |-> "escapedTitle", text |-> <<>>],
      [slot |-> "", text |->
        <<34>>] >>,
    \* lines 1347-1347
    \* | set body of theNote to "${escapedBody}"
    updateBody |-> <<
      [slot |-> "", text |->
        <<115, 101, 116, 32, 98, 111, 100, 121, 32, 111, 102, 32, 116, 104,
        101, 78, 111, 116, 101, 32, 116, 111, 32, 34>>],
      [slot |-> "escapedBody", text |-> <<>>],
      [slot |-> "", text |->
        <<34>>] >>,
    \* lines 1350-1353
    \* | 
    \* |       tell application "Notes"
    \* |         try
    \* |           set theNote to note id "${escapedId}"
    \* |           
    updateHead |-> <<
      [slot |-> "", text |->
        <<10, 32, 32, 32, 32, 32, 32, 116, 101, 108, 108, 32, 97, 112, 112,
        108, 105, 99, 97, 116, 105, 111, 110, 32, 34, 78, 111, 116, 101,
        115, 34, 10, 32, 32, 32, 32, 32, 32, 32, 32, 116, 114, 121, 10, 32,
        32, 32, 32, 32, 32, 32, 32, 32, 32, 115, 101, 116, 32, 116, 104,
        101, 78, 111, 116, 101, 32, 116, 111, 32, 110, 111, 116, 101, 32,
        105, 100, 32, 34>>],
      [slot |-> "escapedId", text |-> <<>>],
      [slot |-> "", text |->
        <<34, 10, 32, 32, 32, 32, 32, 32, 32, 32, 32, 32>>] >>,
    \* lines 1353-1360
    \* | 
    \* |           return "Note updated: " & name of theNote
    \* |         on error errMsg
    \* |           error "Note not found or update failed: " & errMsg
    \* |         end try
    \* |       end tell
    \* |     
    updateTail |-> <<
      [slot |-> "", text |->
        <<10, 32, 32, 32, 32, 32, 32, 32, 32, 32, 32, 114, 101, 116, 117,
        114, 110, 32, 34, 78, 111, 116, 101, 32, 117, 112, 100, 97, 116,
        101, 100, 58, 32, 34, 32, 38, 32, 110, 97, 109, 101, 32, 111, 102,
        32, 116, 104, 101, 78, 111, 116, 101, 10, 32, 32, 32, 32, 32, 32,
        32, 32, 111, 110, 32, 101, 114, 114, 111, 114, 32, 101, 114, 114,
        77, 115, 103, 10, 32, 32, 32, 32, 32, 32, 32, 32, 32, 32, 101, 114,
        114, 111, 114, 32, 34, 78, 111, 116, 101, 32, 110, 111, 116, 32,
        102, 111, 117, 110, 100, 32, 111, 114, 32, 117, 112, 100, 97, 116,
        101, 32, 102, 97, 105, 108, 101, 100, 58, 32, 34, 32, 38, 32, 101,
        114, 114, 77, 115, 103, 10, 32, 32, 32, 32, 32, 32, 32, 32, 101,
        110, 100, 32, 116, 114, 121, 10, 32, 32, 32, 32, 32, 32, 101, 110,
        100, 32, 116, 101, 108, 108, 10, 32, 32, 32, 32>>] >>,
    \* lines 1463-1473
    \* | 
    \* |         tell application "Notes"
    \* |           try
    \* |             set targetFolder to folder "${escapedFolder}"
    \* |             make new note at targetFolder with properties {name:"${escapedTitle}", body:"${escapedBody}"}
    \* |             return "Note created in folder '${escapedFolder}': ${escapedTitle}"
    \* |           on error errMsg
    \* |             error "Folder '${escapedFolder}' not found. Use 'folders list' to see available folders."
    \* |           end try
    \* |         end tell
    \* |       
    createInFolder |-> <<
      [slot |-> "", text |->
        <<10, 32, 32, 32, 32, 32, 32, 32, 32, 116, 101, 108, 108, 32, 97,
        112, 112, 108, 105, 99, 97, 116, 105, 111, 110, 32, 34, 78, 111,
        116, 101, 115, 34, 10, 32, 32, 32, 32, 32, 32, 32, 32, 32, 32, 116,
        114, 121, 10, 32, 32, 32, 32, 32, 32, 32, 32, 32, 32, 32, 32, 115,
        101, 116, 32, 116, 97, 114, 103, 101, 116, 70, 111, 108, 100, 101,
        114, 32, 116, 111, 32, 102, 111, 108, 100, 101, 114, 32, 34>>],
      [slot |-> "escapedFolder", text |-> <<>>],
      [slot |-> "", text |->
        <<34, 10, 32, 32, 32, 32, 32, 32, 32, 32, 32, 32, 32, 32, 109, 97,
        107, 101, 32, 110, 101, 119, 32, 110, 111, 116, 101, 32, 97, 116,
        32, 116, 97, 114, 103, 101, 116, 70, 111, 108, 100, 101, 114, 32,
        119, 105, 116, 104, 32, 112, 114, 111, 112, 101, 114, 116, 105, 101,
        115, 32, 123, 110, 97, 109, 101, 58, 34>>],
      [slot |-> "escapedTitle", text |-> <<>>],
      [slot |-> "", text |->
        <<34, 44, 32, 98, 111, 100, 121, 58, 34>>],
      [slot |-> "escapedBody", text |-> <<>>],
      [slot |-> "", text |->
        <<34, 125, 10, 32, 32, 32, 32, 32, 32, 32, 32, 32, 32, 32, 32, 114,
        101, 116, 117, 114, 110, 32, 34, 78, 111, 116, 101, 32, 99, 114,
        101, 97, 116, 101, 100, 32, 105, 110, 32, 102, 111, 108, 100, 101,
        114, 32, 39>>],
      [slot |-> "escapedFolder", text |-> <<>>],
      [slot |-> "", text |->
        <<39, 58, 32>>],
      [slot |-> "escapedTitle", text |-> <<>>],
      [slot |-> "", text |->
        <<34, 10, 32, 32, 32, 32, 32, 32, 32, 32, 32, 32, 111, 110, 32, 101,
        114, 114, 111, 114, 32, 101, 114, 114, 77, 115, 103, 10, 32, 32, 32,
        32, 32, 32, 32, 32, 32, 32, 32, 32, 101, 114, 114, 111, 114, 32, 34,
        70, 111, 108, 100, 101, 114, 32, 39>>],
      [slot |-> "escapedFolder", text |-> <<>>],
      [slot |-> "", text |->
        <<39, 32, 110, 111, 116, 32, 102, 111, 117, 110, 100, 46, 32, 85,
        115, 101, 32, 39, 102, 111, 108, 100, 101, 114, 115, 32, 108, 105,
        115, 116, 39, 32, 116, 111, 32, 115, 101, 101, 32, 97, 118, 97, 105,
        108, 97, 98, 108, 101, 32, 102, 111, 108, 100, 101, 114, 115, 46,
        34, 10, 32, 32, 32, 32, 32, 32, 32, 32, 32, 32, 101, 110, 100, 32,
        116, 114, 121, 10, 32, 32, 32, 32, 32, 32, 32, 32, 101, 110, 100,
        32, 116, 101, 108, 108, 10, 32, 32, 32, 32, 32, 32>>] >>,
    \* lines 1475-1480
    \* | 
    \* |         tell application "Notes"
    \* |           make new note with properties {name:"${escapedTitle}", body:"${escapedBody}"}
    \* |           return "Note created: ${escapedTitle}"
    \* |         end tell
    \* |       
    create |-> <<
      [slot |-> "", text |->
        <<10, 32, 32, 32, 32, 32, 32, 32, 32, 116, 101, 108, 108, 32, 97,
        112, 112, 108, 105, 99, 97, 116, 105, 111, 110, 32, 34, 78, 111,
        116, 101, 115, 34, 10, 32, 32, 32, 32, 32, 32, 32, 32, 32, 32, 109,
        97, 107, 101, 32, 110, 101, 119, 32, 110, 111, 116, 101, 32, 119,
        105, 116, 104, 32, 112, 114, 111, 112, 101, 114, 116, 105, 101, 115,
        32, 123, 110, 97, 109, 101, 58, 34>>],
      [slot |-> "escapedTitle", text |-> <<>>],
      [slot |-> "", text |->
        <<34, 44, 32, 98, 111, 100, 121, 58, 34>>],
      [slot |-> "escapedBody", text |-> <<>>],
      [slot |-> "", text |->
        <<34, 125, 10, 32, 32, 32, 32, 32, 32, 32, 32, 32, 32, 114, 101,
        116, 117, 114, 110, 32, 34, 78, 111, 116, 101, 32, 99, 114, 101, 97,
        116, 101, 100, 58, 32>>],
      [slot |-> "escapedTitle", text |-> <<>>],
      [slot |-> "", text |->
        <<34, 10, 32, 32, 32, 32, 32, 32, 32, 32, 101, 110, 100, 32, 116,
        101, 108, 108, 10, 32, 32, 32, 32, 32, 32>>] >>,
    \* the separator of scriptParts.join
    separator |->
      <<10, 32, 32, 32, 32, 32, 32, 32, 32, 32, 32>> ]

(* a template literal evaluated with the local variables it substitutes *)
Fill(template, values) ==
  [k \in 1..Len(template) |->
     IF template[k].slot = "" THEN template[k]
     ELSE [slot |-> template[k].slot, text |-> values[template[k].slot].text]]

(* scriptParts.join(separator) inside the template of update *)
RECURSIVE JoinParts(_)
JoinParts(scriptParts) ==
  IF scriptParts = <<>> THEN <<>>
  ELSE IF Len(scriptParts) = 1 THEN scriptParts[1]
  ELSE scriptParts[1] \o <<[slot |-> "", text |-> Templates.separator]>>
         \o JoinParts(Tail(scriptParts))

ErrNoteId == "Invalid note ID"

ErrFolderName == "Invalid folder name"

ErrNoUpdates == "No updates provided. Specify title or body to update."

(* faulty variant: the guard never rejects *)
NotAStringNever(v) == FALSE

(* !value || typeof value !== 'string' *)
NotAString(v) == ~Truthy(v) \/ v.kind # "string"

(* A statement of an operation: what it does, the name it reads (src),    *)
(* the name it assigns (dst), the template it fills or the message it     *)
(* throws (with), and the argument that has to be truthy for it to run    *)
(* (when; "": it always runs)                                             *)
Statement(do, src, dst, with) ==
  [do |-> do, src |-> src, dst |-> dst, with |-> with, when |-> "",
   orElse |-> "skip"]

(* if (!src || typeof src !== 'string') throw new Error(message) *)
Check(src, message) == Statement("check", src, "", message)

(* if (!updates.title && !updates.body) throw new Error(message) *)
Require(message) == Statement("require", "", "", message)

(* const dst = this.validateInput(src, 'title') *)
Validate(src, dst) == Statement("validate", src, dst, "")

(* const dst = this.escapeForAppleScript(src) *)
Escape(src, dst) == Statement("escape", src, dst, "")

(* const dst = this.convertToHTML(src) *)
Convert(src, dst) == Statement("convert", src, dst, "")

(* const dst = src || 50 *)
Default(src, dst) == Statement("default", src, dst, "")

(* let dst = [] *)
NewList(dst) == Statement("list", "", dst, "")

(* dst.push(`template`) *)
Push(dst, template) == Statement("push", "", dst, template)

(* const script = `template`; return await this.executeAppleScript(script) *)
Execute(template) == Statement("execute", "", "", template)

(* if (argument) { statement } *)
When(argument, statement) == [statement EXCEPT !.when = argument]

(* const dst = argument ? ... : '' *)
OrEmpty(statement) == [statement EXCEPT !.orElse = "empty"]

(* the statements of the operations, in the order of the source *)
Body(op) ==
  CASE op = "listFolders" -> <<Execute("listFolders")>>
    [] op = "createFolder" ->
         << Validate("name", "validName"),
            Escape("validName", "escapedName"),
            Execute("createFolder") >>
    [] op = "deleteNote" ->
         << Check("noteId", ErrNoteId),
            Escape("noteId", "escapedId"),
            Execute("deleteNote") >>
    [] op = "deleteFolder" ->
         << Check("folderName", ErrFolderName),
            Escape("folderName", "escapedName"),
            Execute("deleteFolder") >>
    [] op = "list" ->
         << Default("options.limit", "limit"),
            Execute("list") >>
    [] op = "show" ->
         << Check("noteId", ErrNoteId),
            Escape("noteId", "escapedId"),
            Execute("show") >>
    [] op = "update" ->
         << Check("noteId", ErrNoteId),
            Require(ErrNoUpdates),
            Escape("noteId", "escapedId"),
            NewList("scriptParts"),
            When("updates.title", Validate("updates.title", "validTitle")),
            When("updates.title", Escape("validTitle", "escapedTitle")),
            When("updates.title", Push("scriptParts", "updateTitle")),
            When("updates.body", Convert("updates.body", "htmlBody")),
            When("updates.body", Escape("htmlBody", "escapedBody")),
            When("updates.body", Push("scriptParts", "updateBody")),
            Execute("update") >>
    [] op = "create" ->
         << Validate("title", "validTitle"),
            Escape("validTitle", "escapedTitle"),
            OrEmpty(When("body", Convert("body", "htmlBody"))),
            Escape("htmlBody", "escapedBody"),
            When("options.folder", Escape("options.folder", "escapedFolder")),
            When("options.folder", Execute("createInFolder")),
            Execute("create") >>

(* an argument of the call, by the name the operation reads it with *)
Argument(a, name) ==
  CASE name = "options.limit" -> a.options.limit
    [] name = "options.folder" -> a.options.folder
    [] name = "updates.title" -> a.updates.title
    [] name = "updates.body" -> a.updates.body
    [] name = "body" -> IF a.body.kind = "undefined" THEN Str(<<>>) ELSE a.body
    [] OTHER -> a[name]

(* the script of a template; the template of update holds the joined parts *)
ScriptOf(template, values) ==
  IF template = "update"
  THEN Fill(Templates.updateHead, values) \o JoinParts(values.scriptParts)
         \o Templates.updateTail
  ELSE Fill(Templates[template], values)

(* String.prototype.split(sep) *)
RECURSIVE Split(_, _)
Split(s, sep) ==
  LET n == IndexOf(s, sep, 1)
  IN  IF n = 0 THEN <<s>>
      ELSE <<SubSeq(s, 1, n - 1)>> \o Split(SubSeq(s, n + Len(sep), Len(s)), sep)

(* '|||' and '###', the separators the scripts put in their output *)
FieldSep == <<124, 124, 124>>

RecordSep == <<35, 35, 35>>

(* field?.trim() || '' of the k-th element of a destructured split *)
Field(fields, k) == IF k <= Len(fields) THEN Trim(fields[k]) ELSE <<>>

RECURSIVE DecimalValue(_)
DecimalValue(digits) ==
  IF digits = <<>> THEN 0
  ELSE DecimalValue(SubSeq(digits, 1, Len(digits) - 1)) * 10
         + (digits[Len(digits)] - U.ZERO)

(* parseInt(text, 10) of a trimmed text: an optional sign and the digits  *)
(* that follow it; NaN without a digit                                    *)
ParseInt(text) ==
  LET signed == text # <<>> /\ text[1] \in {43, 45}
      first == IF signed THEN 2 ELSE 1
      end == SkipWhile(text, first, Digits)
      value == DecimalValue(SubSeq(text, first, end - 1))
  IN  IF end = first THEN [nan |-> TRUE, value |-> 0]
      ELSE [nan |-> FALSE,
            value |-> IF signed /\ text[1] = 45 THEN 0 - value ELSE value]

(* .filter(x => x.id && x.name) *)
RECURSIVE WithIdAndName(_)
WithIdAndName(records) ==
  IF records = <<>> THEN <<>>
  ELSE (IF Head(records).id # <<>> /\ Head(records).name # <<>>
        THEN <<Head(records)>> ELSE <<>>) \o WithIdAndName(Tail(records))

FolderOf(folderStr) ==
  LET fields == Split(folderStr, FieldSep)
  IN  [id |-> Field(fields, 1), name |-> Field(fields, 2),
       noteCount |-> ParseInt(IF Field(fields, 3) = <<>> THEN <<U.ZERO>>
                              ELSE Field(fields, 3))]

NoteOf(noteStr) ==
  LET fields == Split(noteStr, FieldSep)
  IN  [id |-> Field(fields, 1), name |-> Field(fields, 2),
       folder |-> Field(fields, 3), creationDate |-> Field(fields, 4),
       modificationDate |-> Field(fields, 5)]

(* what the operation returns once executeAppleScript has resolved with *)
(* result                                                               *)
Returned(op, result) ==
  LET strs == Split(result, RecordSep)
      fields == Split(result, FieldSep)
  IN  CASE op = "listFolders" ->
             IF Trim(result) = <<>> THEN <<>>
             ELSE WithIdAndName([k \in 1..Len(strs) |-> FolderOf(strs[k])])
        [] op = "list" ->
             IF Trim(result) = <<>> THEN <<>>
             ELSE WithIdAndName([k \in 1..Len(strs) |-> NoteOf(strs[k])])
        [] op = "show" ->
             <<[id |-> Field(fields, 1), name |-> Field(fields, 2),
                body |-> Field(fields, 3)]>>
        [] OTHER -> result

-----------------------------------------------------------------------------
(* Calls of the operations: the arguments a caller passes *)

(* 'x1' *)
IdPlain ==
  <<120, 49>>

(* 'p"q' *)
IdQuoted ==
  <<112, 34, 113>>

(* ' a ' *)
TitlePadded ==
  <<32, 97, 32>>

(* 'a"b' *)
TitleQuoted ==
  <<97, 34, 98>>

(* '**b**' *)
BodyBold ==
  <<42, 42, 98, 42, 42>>

(* 'x"y\n' *)
BodyQuoted ==
  <<120, 34, 121, 10>>

(* 'f' *)
FolderPlain ==
  <<102>>

(* 'f\g' *)
FolderBackslash ==
  <<102, 92, 103>>

(* '5' *)
LimitFive ==
  <<53>>

(* '1\nbeep\nif true' *)
LimitScript ==
  <<49, 10, 98, 101, 101, 112, 10, 105, 102, 32, 116, 114, 117, 101>>

(* a title one longer than TitleMax *)
TitleLong == <<Run(U.a, TitleMax), Lc.b>>

NoteIds == {Undefined, Str(<<>>), Num(LimitFive), Str(IdPlain), Str(IdQuoted)}

Titles ==
  {Undefined, Num(LimitFive), Str(<<>>), Str(<<U.SP>>), Str(TitlePadded),
   Str(TitleQuoted), Str(TitleLong)}

(* a body is a string, or is left out *)
Bodies == {Undefined, Str(<<>>), Str(BodyBold), Str(BodyQuoted)}

Folders == {Undefined, Str(FolderPlain), Str(FolderBackslash)}

Limits == {Undefined, Num(LimitFive), Str(LimitFive), Str(LimitScript)}

Operations ==
  {"listFolders", "createFolder", "deleteNote", "deleteFolder", "list",
   "show", "update", "create"}

Arguments(op) ==
  CASE op = "listFolders" -> {<<>>}
    [] op = "createFolder" -> {[name |-> v] : v \in Titles}
    [] op = "deleteNote" -> {[noteId |-> v] : v \in NoteIds}
    [] op = "deleteFolder" -> {[folderName |-> v] : v \in Folders \cup {Str(<<>>)}}
    [] op = "list" -> {[options |-> [limit |-> v]] : v \in Limits}
    [] op = "show" -> {[noteId |-> v] : v \in NoteIds}
    [] op = "update" ->
         {[noteId |-> i, updates |-> [title |-> v, body |-> b]] :
            i \in NoteIds, v \in Titles, b \in Bodies}
    [] op = "create" ->
         {[title |-> v, body |-> b, options |-> [folder |-> f]] :
            v \in Titles, b \in Bodies, f \in Folders}

(* 'Note created: a\n' *)
OutCreated ==
  <<78, 111, 116, 101, 32, 99, 114, 101, 97, 116, 101, 100, 58, 32, 97, 10>>

(* 'x1|||a||| b ' *)
OutNote ==
  <<120, 49, 124, 124, 124, 97, 124, 124, 124, 32, 98, 32>>

(* '1|||A|||2###2||| |||3###3|||B' *)
OutRecords ==
  <<49, 124, 124, 124, 65, 124, 124, 124, 50, 35, 35, 35, 50, 124, 124, 124, 32, 124, 124, 124, 51, 35, 35, 35, 51, 124, 124, 124, 66>>

(* what osascript prints *)
Outputs == {<<>>, OutCreated, OutNote, OutRecords}

InitOps ==
  /\ Untouched
  /\ pc = 1
  /\ fn \in Operations
  /\ vtype = "operation"
  /\ argKind = "arguments"
  /\ arg \in Arguments(fn)
  /\ ret = <<>>
  /\ err = "none"

(* the statement the operation is at *)
Current == Body(fn)[pc]

(* the synchronous part of the operation is running *)
Running ==
  /\ fn \in Operations
  /\ promise = "none"
  /\ scripts = <<>>
  /\ pc \in 1..Len(Body(fn))

(* the value of a name: a local variable or an argument *)
Value(name) ==
  IF name \in DOMAIN locals THEN locals[name] ELSE Argument(arg, name)

(* the local variables after name = value *)
Assign(name, value) ==
  [n \in DOMAIN locals \cup {name} |-> IF n = name THEN value ELSE locals[n]]

(* the condition of the statement holds *)
Runs(statement) ==
  IF statement.when = "" THEN TRUE ELSE Truthy(Argument(arg, statement.when))

(* the statement throws: the promise of the operation is rejected *)
Throw(message) ==
  /\ promise' = "rejected"
  /\ err' = message
  /\ UNCHANGED <<pc, locals>>

Continue(values) ==
  /\ pc' = pc + 1
  /\ locals' = values
  /\ UNCHANGED <<promise, err>>

(* what no statement changes *)
Frame == UNCHANGED <<fn, vtype, argKind, arg, ret, exitCode, timer, osascript, files>>

(* the condition of the statement does not hold *)
SkipStatement ==
  /\ Running
  /\ ~Runs(Current)
  /\ Continue(IF Current.orElse = "empty"
              THEN Assign(Current.dst, Str(<<>>)) ELSE locals)
  /\ UNCHANGED <<events, scripts>>
  /\ Frame

CheckString ==
  /\ Running
  /\ Runs(Current)
  /\ Current.do = "check"
  /\ IF NotAString(Value(Current.src)) THEN Throw(Current.with)
     ELSE Continue(locals)
  /\ UNCHANGED <<events, scripts>>
  /\ Frame

RequireUpdate ==
  /\ Running
  /\ Runs(Current)
  /\ Current.do = "require"
  /\ IF ~Truthy(arg.updates.title) /\ ~Truthy(arg.updates.body)
     THEN Throw(Current.with)
     ELSE Continue(locals)
  /\ UNCHANGED <<events, scripts>>
  /\ Frame

ValidateTitle ==
  /\ Running
  /\ Runs(Current)
  /\ Current.do = "validate"
  /\ \E r \in {validateInput(Value(Current.src).kind, Value(Current.src).text,
                             "title")} :
       IF r.err # "none" THEN Throw(r.err)
       ELSE Continue(Assign(Current.dst, Str(r.ret)))
  /\ events' = Append(events, "validateInput")
  /\ UNCHANGED scripts
  /\ Frame

EscapeValue ==
  /\ Running
  /\ Runs(Current)
  /\ Current.do = "escape"
  /\ \E escaped \in {escapeForAppleScript(Value(Current.src).kind,
                                          Value(Current.src).text)} :
       Continue(Assign(Current.dst, Str(escaped)))
  /\ events' = Append(events, "escapeForAppleScript")
  /\ UNCHANGED scripts
  /\ Frame

ConvertBody ==
  /\ Running
  /\ Runs(Current)
  /\ Current.do = "convert"
  /\ \E html \in {convertToHTML(Value(Current.src).text)} :
       Continue(Assign(Current.dst, Str(html)))
  /\ events' = Append(events, "convertToHTML")
  /\ UNCHANGED scripts
  /\ Frame

(* '50', the text of the default limit *)
DefaultLimit == <<53, 48>>

TakeDefault ==
  /\ Running
  /\ Runs(Current)
  /\ Current.do = "default"
  /\ Continue(Assign(Current.dst,
                     IF Truthy(Value(Current.src)) THEN Value(Current.src)
                     ELSE Num(DefaultLimit)))
  /\ UNCHANGED <<events, scripts>>
  /\ Frame

MakeList ==
  /\ Running
  /\ Runs(Current)
  /\ Current.do = "list"
  /\ Continue(Assign(Current.dst, <<>>))
  /\ UNCHANGED <<events, scripts>>
  /\ Frame

PushPart ==
  /\ Running
  /\ Runs(Current)
  /\ Current.do = "push"
  /\ Continue(Assign(Current.dst,
                     Append(locals[Current.dst],
                            Fill(Templates[Current.with], locals))))
  /\ UNCHANGED <<events, scripts>>
  /\ Frame

(* the script is built and handed to executeAppleScript: the operation *)
(* awaits the outcome                                                  *)
ExecuteScript ==
  /\ Running
  /\ Runs(Current)
  /\ Current.do = "execute"
  /\ scripts' = Append(scripts, ScriptOf(Current.with, locals))
  /\ events' = Append(events, "executeAppleScript")
  /\ Continue(locals)
  /\ Frame

(* executeAppleScript resolves with the trimmed output: the operation *)
(* returns                                                            *)
ScriptResolves ==
  /\ fn \in Operations
  /\ promise = "none"
  /\ scripts # <<>>
  /\ \E stdout \in Outputs : ret' = Returned(fn, Trim(stdout))
  /\ promise' = "resolved"
  /\ UNCHANGED <<pc, fn, vtype, argKind, arg, err>>
  /\ UNCHANGED <<exitCode, events, locals, scripts, timer, osascript, files>>

(* executeAppleScript rejects: so does the operation *)
ScriptRejects ==
  /\ fn \in Operations
  /\ promise = "none"
  /\ scripts # <<>>
  /\ \E e \in CoreErrors : err' = e
  /\ promise' = "rejected"
  /\ UNCHANGED <<pc, fn, vtype, argKind, arg, ret>>
  /\ UNCHANGED <<exitCode, events, locals, scripts, timer, osascript, files>>

NextOps ==
  \/ SkipStatement \/ CheckString \/ RequireUpdate \/ ValidateTitle
  \/ EscapeValue \/ ConvertBody \/ TakeDefault \/ MakeList \/ PushPart
  \/ ExecuteScript \/ ScriptResolves \/ ScriptRejects

SpecOps == InitOps /\ [][NextOps]_vars

-----------------------------------------------------------------------------
(* Properties of the operations *)

(* the text of the first n pieces of a script *)
RECURSIVE Flat(_, _)
Flat(script, n) ==
  IF n = 0 THEN <<>> ELSE Flat(script, n - 1) \o script[n].text

(* the number of double quotes of s that no backslash escapes *)
OpenQuotes(s) ==
  Cardinality({i \in 1..Len(s) : s[i] = U.DQ /\ BackslashesBefore(s, i) % 2 = 0})

(* the value of the caller that the operation puts at a substitution *)
Passed(op, a, slot) ==
  CASE slot = "escapedTitle" /\ op = "create" -> Str(Trim(a.title.text))
    [] slot = "escapedTitle" /\ op = "update" -> Str(Trim(a.updates.title.text))
    [] slot = "escapedBody" /\ op = "create" ->
         IF Truthy(a.body) THEN Str(convertToHTML(a.body.text)) ELSE Str(<<>>)
    [] slot = "escapedBody" /\ op = "update" ->
         Str(convertToHTML(a.updates.body.text))
    [] slot = "escapedFolder" -> a.options.folder
    [] slot = "escapedId" -> a.noteId
    [] slot = "escapedName" /\ op = "createFolder" -> Str(Trim(a.name.text))
    [] slot = "escapedName" /\ op = "deleteFolder" -> a.folderName
    [] slot = "limit" -> a.options.limit

(* the substitution holds a value of the caller: all do, but for the *)
(* limit of list when the caller gave none                           *)
FromCaller(a, slot) ==
  slot # "" /\ (slot = "limit" => Truthy(a.options.limit))

(* C23: in every operation, every value of the caller that appears in the *)
(* script handed to executeAppleScript is the output of                   *)
(* escapeForAppleScript and sits between double quotes of the template    *)
C23_CallerValuesEscapedAndQuoted ==
  fn \in Operations =>
    \A n \in 1..Len(scripts) : \A k \in 1..Len(scripts[n]) :
      FromCaller(arg, scripts[n][k].slot) =>
        /\ \A value \in {Passed(fn, arg, scripts[n][k].slot)} :
             scripts[n][k].text = escapeForAppleScript(value.kind, value.text)
        /\ OpenQuotes(Flat(scripts[n], k - 1)) % 2 = 1

(* the same of the substitutions other than the limit of list *)
EscapedSlotsQuoted ==
  fn \in Operations =>
    \A n \in 1..Len(scripts) : \A k \in 1..Len(scripts[n]) :
      scripts[n][k].slot \notin {"", "limit"} =>
        /\ \A value \in {Passed(fn, arg, scripts[n][k].slot)} :
             scripts[n][k].text = escapeForAppleScript(value.kind, value.text)
        /\ OpenQuotes(Flat(scripts[n], k - 1)) % 2 = 1

(* the error validateInput has for a title, "none" for a valid one *)
TitleError(v) ==
  IF v.kind # "string" \/ v.text = <<>> THEN ErrInvalid
  ELSE IF StrLen(v.text) > TitleMax THEN ErrTooLong
  ELSE IF \A i \in 1..Len(v.text) : CodeOf(v.text[i]) \in SpaceChars THEN ErrEmpty
  ELSE "none"

BadId(v) == v.kind # "string" \/ v.text = <<>>

(* the error create, createFolder and update have for their arguments *)
ArgumentError(op, a) ==
  CASE op = "create" -> TitleError(a.title)
    [] op = "createFolder" -> TitleError(a.name)
    [] op = "update" ->
         IF BadId(a.noteId) THEN ErrNoteId
         ELSE IF ~Truthy(a.updates.title) /\ ~Truthy(a.updates.body)
         THEN ErrNoUpdates
         ELSE IF Truthy(a.updates.title) THEN TitleError(a.updates.title)
         ELSE "none"
    [] OTHER -> "none"

EscapeCalls(calls) ==
  {i \in 1..Len(calls) : calls[i] = "escapeForAppleScript"}

ExecuteCalls(calls) ==
  {i \in 1..Len(calls) : calls[i] = "executeAppleScript"}

EscapedSlots(script) ==
  {script[k].slot : k \in 1..Len(script)} \ {"", "limit"}

(* for arguments that fail validation no script is handed over, the      *)
(* operation is not resolved, it has a statement left to run until it is *)
(* rejected, and the rejection carries the error of the validation       *)
RejectsBeforeSpawn ==
  ArgumentError(fn, arg) # "none" =>
    /\ scripts = <<>>
    /\ promise # "resolved"
    /\ promise = "none" => pc \in 1..Len(Body(fn))
    /\ promise = "rejected" => err = ArgumentError(fn, arg)

(* executeAppleScript is called at most once, as the last call, after one *)
(* call of escapeForAppleScript for each escaped value of the script      *)
SpawnsOnce ==
  /\ Len(scripts) <= 1
  /\ Cardinality(ExecuteCalls(events)) = Len(scripts)
  /\ \A n \in 1..Len(scripts) :
       /\ ExecuteCalls(events) = {Len(events)}
       /\ Cardinality(EscapeCalls(events)) = Cardinality(EscapedSlots(scripts[n]))

(* C24: in create, createFolder and update a title, note id or set of     *)
(* updates that fails validation leads to no script for                   *)
(* executeAppleScript and to no other outcome than the rejection with the *)
(* error of the validation; in every operation executeAppleScript is      *)
(* called at most once, and only after every escaped value of the script  *)
(* has been computed                                                      *)
C24_RejectsBeforeSpawnAndSpawnsOnce ==
  fn \in Operations => RejectsBeforeSpawn /\ SpawnsOnce

C24_Witness ==
  /\ fn = "update"
  /\ promise = "rejected"
  /\ arg = [noteId |-> Str(IdQuoted),
            updates |-> [title |-> Str(TitleLong), body |-> Str(BodyBold)]]
  /\ err = ErrTooLong
  /\ scripts = <<>>
  /\ events = <<"escapeForAppleScript", "validateInput">>

-----------------------------------------------------------------------------
(* executeAppleScript: the promise, the timer and the osascript process *)

(* 'AppleScript timeout' *)
ErrTimeout ==
  <<65, 112, 112, 108, 101, 83, 99, 114, 105, 112, 116, 32, 116, 105, 109,
    101, 111, 117, 116>>

(* 'AppleScript failed' *)
ErrFailed ==
  <<65, 112, 112, 108, 101, 83, 99, 114, 105, 112, 116, 32, 102, 97, 105,
    108, 101, 100>>

(* 'spawn osascript ENOENT' *)
ErrSpawn ==
  <<115, 112, 97, 119, 110, 32, 111, 115, 97, 115, 99, 114, 105, 112, 116,
    32, 69, 78, 79, 69, 78, 84>>

(* faulty variant: a settled promise is settled again *)
RejectAgain(reason) ==
  /\ promise' = "rejected"
  /\ err' = reason
  /\ ret' = ret

(* reject(reason): without effect on a settled promise *)
Reject(reason) ==
  IF promise = "pending"
  THEN promise' = "rejected" /\ err' = reason /\ ret' = ret
  ELSE UNCHANGED <<promise, err, ret>>

(* resolve(value): without effect on a settled promise *)
Resolve(value) ==
  IF promise = "pending"
  THEN promise' = "resolved" /\ ret' = value /\ err' = err
  ELSE UNCHANGED <<promise, err, ret>>

(* clearTimeout(timer) *)
ClearTimeout == timer' = IF timer = "armed" THEN "cleared" ELSE timer

(* 'return 1' *)
ScriptShort ==
  <<114, 101, 116, 117, 114, 110, 32, 49>>

(* ' ok\n' *)
OutPadded ==
  <<32, 111, 107, 10>>

(* 'x ' *)
OutMore ==
  <<120, 32>>

(* 'execution error' *)
ErrText ==
  <<101, 120, 101, 99, 117, 116, 105, 111, 110, 32, 101, 114, 114, 111,
    114>>

(* the most data events of one run *)
MaxData == 2

Chunks == {OutPadded, OutMore}

(* the exit codes of a close event; -1 stands for null, the code of a *)
(* process that a signal ended                                        *)
CloseCodes == {0, 1, -1}

(* after the executor of the promise has run: the process is spawned, the *)
(* timer set, the handlers registered and the script written to stdin     *)
InitExec ==
  /\ pc = "running"
  /\ fn = "executeAppleScript"
  /\ vtype = "script"
  /\ argKind = "string"
  /\ arg \in {<<>>, ScriptShort}
  /\ ret = <<>>
  /\ err = <<>>
  /\ exitCode = -1
  /\ events = <<>>
  /\ locals = [stdout |-> <<>>, stderr |-> <<>>]
  /\ scripts = <<arg>>
  /\ timer = "armed"
  /\ osascript = [signals |-> <<>>, closed |-> FALSE, failed |-> FALSE]
  /\ promise = "pending"
  /\ files = <<>>

DataEvents == {i \in 1..Len(events) : events[i].name = "data"}

(* osascript.stdout.on('data'): stdout += data.toString() *)
StdoutData ==
  /\ fn = "executeAppleScript"
  /\ ~osascript.closed
  /\ Cardinality(DataEvents) < MaxData
  /\ \E data \in Chunks :
       locals' = [locals EXCEPT !.stdout = locals.stdout \o data]
  /\ events' = Append(events, [name |-> "data", code |-> 0])
  /\ UNCHANGED <<pc, fn, vtype, argKind, arg, ret, err>>
  /\ UNCHANGED <<exitCode, scripts, timer, osascript, promise, files>>

(* osascript.stderr.on('data'): stderr += data.toString() *)
StderrData ==
  /\ fn = "executeAppleScript"
  /\ ~osascript.closed
  /\ Cardinality(DataEvents) < MaxData
  /\ locals' = [locals EXCEPT !.stderr = locals.stderr \o ErrText]
  /\ events' = Append(events, [name |-> "data", code |-> 0])
  /\ UNCHANGED <<pc, fn, vtype, argKind, arg, ret, err>>
  /\ UNCHANGED <<exitCode, scripts, timer, osascript, promise, files>>

(* the callback of setTimeout: kill the process, reject *)
TimerFires ==
  /\ fn = "executeAppleScript"
  /\ timer = "armed"
  /\ timer' = "fired"
  /\ osascript' = [osascript EXCEPT !.signals = Append(osascript.signals, "SIGTERM")]
  /\ Reject(ErrTimeout)
  /\ events' = Append(events, [name |-> "timeout", code |-> 0])
  /\ UNCHANGED <<pc, fn, vtype, argKind, arg>>
  /\ UNCHANGED <<exitCode, locals, scripts, files>>

(* osascript.on('close') *)
ProcessCloses ==
  /\ fn = "executeAppleScript"
  /\ ~osascript.closed
  /\ \E code \in CloseCodes :
       /\ IF code # 0
          THEN Reject(IF locals.stderr # <<>> THEN locals.stderr ELSE ErrFailed)
          ELSE Resolve(Trim(locals.stdout))
       /\ events' = Append(events, [name |-> "close", code |-> code])
  /\ ClearTimeout
  /\ osascript' = [osascript EXCEPT !.closed = TRUE]
  /\ UNCHANGED <<pc, fn, vtype, argKind, arg>>
  /\ UNCHANGED <<exitCode, locals, scripts, files>>

(* osascript.on('error'): the process could not be spawned or signalled *)
ProcessFails ==
  /\ fn = "executeAppleScript"
  /\ ~osascript.closed
  /\ ~osascript.failed
  /\ ClearTimeout
  /\ Reject(ErrSpawn)
  /\ osascript' = [osascript EXCEPT !.failed = TRUE]
  /\ events' = Append(events, [name |-> "error", code |-> 0])
  /\ UNCHANGED <<pc, fn, vtype, argKind, arg>>
  /\ UNCHANGED <<exitCode, locals, scripts, files>>

NextExec ==
  StdoutData \/ StderrData \/ TimerFires \/ ProcessCloses \/ ProcessFails

SpecExec == InitExec /\ [][NextExec]_vars

(* a timer that stays set fires *)
SpecExecFair == SpecExec /\ WF_vars(TimerFires)

-----------------------------------------------------------------------------
(* Properties of executeAppleScript *)

(* the positions of the timeout, close and error events *)
Settling == {i \in 1..Len(events) : events[i].name \in {"timeout", "close", "error"}}

(* the outcome that the first of them gives the promise *)
OutcomeOfFirst ==
  LET e == events[First(Settling)]
  IN  CASE e.name = "timeout" ->
             promise = "rejected" /\ err = ErrTimeout
               /\ osascript.signals = <<"SIGTERM">>
        [] e.name = "close" /\ e.code = 0 ->
             promise = "resolved" /\ ret = Trim(locals.stdout)
        [] e.name = "close" /\ e.code # 0 ->
             promise = "rejected"
               /\ err = (IF locals.stderr # <<>> THEN locals.stderr ELSE ErrFailed)
        [] e.name = "error" -> promise = "rejected" /\ err = ErrSpawn

(* SIGTERM is sent by the timeout alone, and not once a close or error *)
(* event has occurred                                                  *)
NoLateSignal ==
  /\ Len(osascript.signals) = Cardinality({i \in Settling : events[i].name = "timeout"})
  /\ \A i \in Settling : \A j \in Settling :
       (i < j /\ events[i].name \in {"close", "error"}) => events[j].name # "timeout"

(* C25: the promise of executeAppleScript is settled exactly once, by the *)
(* first of the timeout, close and error events: a timeout sends SIGTERM  *)
(* and rejects with 'AppleScript timeout', a close with code 0 resolves   *)
(* with the trimmed output, another close rejects; later events do not    *)
(* change the outcome, and no SIGTERM is sent after a close or an error   *)
C25_SettledOnceByFirstEvent ==
  /\ [](fn = "executeAppleScript" =>
          /\ Settling = {} => promise = "pending"
          /\ Settling # {} => OutcomeOfFirst
          /\ NoLateSignal)
  /\ <>(fn = "executeAppleScript" => promise \in {"resolved", "rejected"})

C25_Witness ==
  /\ fn = "executeAppleScript"
  /\ events = << [name |-> "data", code |-> 0], [name |-> "timeout", code |-> 0],
                 [name |-> "close", code |-> 0] >>
  /\ promise = "rejected"
  /\ err = ErrTimeout
  /\ locals.stdout = OutPadded
  /\ timer = "fired"

-----------------------------------------------------------------------------
(* setup-integrations: run, setupShellAliases and setupClaudeCommands *)

shellConfigFiles == <<".zshrc", ".bashrc", ".bash_profile", ".profile">>

(* '\n# Apple Notes CLI shortcuts\nalias note='notes-cli'\nalias n='notes-cli'\n' *)
aliasContent ==
  <<10, 35, 32, 65, 112, 112, 108, 101, 32, 78, 111, 116, 101, 115, 32, 67,
    76, 73, 32, 115, 104, 111, 114, 116, 99, 117, 116, 115, 10, 97, 108,
    105, 97, 115, 32, 110, 111, 116, 101, 61, 39, 110, 111, 116, 101, 115,
    45, 99, 108, 105, 39, 10, 97, 108, 105, 97, 115, 32, 110, 61, 39, 110,
    111, 116, 101, 115, 45, 99, 108, 105, 39, 10>>

(* 'alias note='notes-cli'' *)
AliasLine ==
  <<97, 108, 105, 97, 115, 32, 110, 111, 116, 101, 61, 39, 110, 111, 116,
    101, 115, 45, 99, 108, 105, 39>>

(* the names of the command files, without '.md' *)
commands ==
  <<"notecli-notes-list", "notecli-note-create", "notecli-note-show",
    "notecli-note-edit", "notecli-note-delete", "notecli-folders-list",
    "notecli-folder-create", "notecli-folder-delete">>

(* faulty variant: the alias line is never found *)
IncludesNever(content, text) == FALSE

(* content.includes(text) *)
Includes(content, text) ==
  \E i \in 1..(Len(content) - Len(text) + 1) :
    \A k \in 1..Len(text) : content[i + k - 1] = text[k]

(* the body of the loop of setupShellAliases for one file: a file that is *)
(* not there or has the alias line is passed over; appendFileSync throws  *)
(* for a file that cannot be written, which the catch block reports       *)
WithAliases(file) ==
  IF ~file.exists THEN file
  ELSE IF Includes(file.content, AliasLine) THEN file
  ELSE IF file.mode = "ro" THEN file
  ELSE [file EXCEPT !.content = file.content \o aliasContent]

setupShellAliases(home) ==
  [home EXCEPT !.config =
     [n \in DOMAIN home.config |-> WithAliases(home.config[n])]]

(* setupClaudeCommands: the directory is made if it is not there and each *)
(* command file that is not there is written; mkdirSync and writeFileSync *)
(* throw where nothing can be written, which the catch block reports      *)
setupClaudeCommands(home) ==
  IF home.dir.mode = "ro"
       /\ (~home.dir.exists \/ \E n \in DOMAIN home.commands : home.commands[n] = "absent")
  THEN home
  ELSE [home EXCEPT
          !.dir = [exists |-> TRUE, mode |-> home.dir.mode],
          !.commands = [n \in DOMAIN home.commands |->
                          IF home.commands[n] = "absent" THEN "written"
                          ELSE home.commands[n]]]

(* answer.toLowerCase() of the answers below *)
ToLowerCase(answer) ==
  CASE answer = "Y" -> "y"
    [] answer = "YES" -> "yes"
    [] OTHER -> answer

(* the value askConfirmation resolves with *)
askConfirmation(answer) ==
  ToLowerCase(answer) = "y" \/ ToLowerCase(answer) = "yes"

(* 'export A=1' *)
TextOther ==
  <<101, 120, 112, 111, 114, 116, 32, 65, 61, 49>>

(* 'alias g=git\nalias note='notes-cli'\n' *)
TextWithLine ==
  <<97, 108, 105, 97, 115, 32, 103, 61, 103, 105, 116, 10, 97, 108, 105, 97,
    115, 32, 110, 111, 116, 101, 61, 39, 110, 111, 116, 101, 115, 45, 99,
    108, 105, 39, 10>>

(* the most runs of the script on one home directory *)
MaxRuns == 2

Answers == {"y", "Y", "YES", "n", "", "yes please"}

Missing == [exists |-> FALSE, mode |-> "rw", content |-> <<>>]

File(mode, content) == [exists |-> TRUE, mode |-> mode, content |-> content]

ConfigFiles ==
  {Missing, File("rw", TextOther), File("rw", TextWithLine), File("ro", TextOther)}

ConfigNames == {shellConfigFiles[k] : k \in 1..Len(shellConfigFiles)}

CommandNames == {commands[k] : k \in 1..Len(commands)}

(* ~/.claude/commands: not there, there with one file of the user, or *)
(* there and not writable                                             *)
CommandDirs ==
  { [dir |-> [exists |-> FALSE, mode |-> "rw"],
     commands |-> [n \in CommandNames |-> "absent"]],
    [dir |-> [exists |-> TRUE, mode |-> "rw"],
     commands |-> [n \in CommandNames |->
                     IF n = "notecli-note-show" THEN "user" ELSE "absent"]],
    [dir |-> [exists |-> TRUE, mode |-> "ro"],
     commands |-> [n \in CommandNames |-> "absent"]] }

Homes ==
  { [config |-> c, dir |-> d.dir, commands |-> d.commands] :
      c \in [ConfigNames -> ConfigFiles], d \in CommandDirs }

InitSetup ==
  /\ pc = "confirm"
  /\ fn = "run"
  /\ vtype = "home"
  /\ argKind = "files"
  /\ arg \in Homes
  /\ files = arg
  /\ ret = <<>>
  /\ err = "none"
  /\ exitCode = -1
  /\ events = <<>>
  /\ locals = [run |-> 1, aliasRuns |-> 0]
  /\ scripts = <<>>
  /\ timer = "none"
  /\ osascript = "none"
  /\ promise = "none"

(* the answer to a prompt, as askConfirmation resolves it *)
Answered(question, yes) ==
  events' = Append(events, [run |-> locals.run, question |-> question, yes |-> yes])

(* 'Do you want to proceed with the setup?': process.exit(0) on a no *)
ConfirmSetup ==
  /\ fn = "run"
  /\ pc = "confirm"
  /\ \E answer \in Answers :
       /\ Answered("proceed", askConfirmation(answer))
       /\ IF askConfirmation(answer)
          THEN pc' = "askAliases" /\ exitCode' = exitCode
          ELSE pc' = "exit" /\ exitCode' = 0
  /\ UNCHANGED <<fn, vtype, argKind, arg, ret, err>>
  /\ UNCHANGED <<locals, scripts, timer, osascript, promise, files>>

(* 'Add shell aliases (note, n)?' and, on a yes, setupShellAliases *)
AskAliases ==
  /\ fn = "run"
  /\ pc = "askAliases"
  /\ \E answer \in Answers :
       /\ Answered("aliases", askConfirmation(answer))
       /\ IF askConfirmation(answer)
          THEN /\ files' = setupShellAliases(files)
               /\ locals' = [locals EXCEPT !.aliasRuns = locals.aliasRuns + 1]
          ELSE UNCHANGED <<files, locals>>
  /\ pc' = "askClaude"
  /\ UNCHANGED <<fn, vtype, argKind, arg, ret, err>>
  /\ UNCHANGED <<exitCode, scripts, timer, osascript, promise>>

(* 'Setup Claude Code integration?' and, on a yes, setupClaudeCommands; *)
(* run then prints and returns                                          *)
AskClaude ==
  /\ fn = "run"
  /\ pc = "askClaude"
  /\ \E answer \in Answers :
       /\ Answered("claude", askConfirmation(answer))
       /\ files' = IF askConfirmation(answer) THEN setupClaudeCommands(files)
                   ELSE files
  /\ pc' = "done"
  /\ UNCHANGED <<fn, vtype, argKind, arg, ret, err>>
  /\ UNCHANGED <<exitCode, locals, scripts, timer, osascript, promise>>

(* the script is run again on the same home directory *)
RunAgain ==
  /\ fn = "run"
  /\ pc \in {"done", "exit"}
  /\ locals.run < MaxRuns
  /\ locals' = [locals EXCEPT !.run = locals.run + 1]
  /\ pc' = "confirm"
  /\ exitCode' = -1
  /\ UNCHANGED <<fn, vtype, argKind, arg, ret, err>>
  /\ UNCHANGED <<events, scripts, timer, osascript, promise, files>>

NextSetup == ConfirmSetup \/ AskAliases \/ AskClaude \/ RunAgain

SpecSetup == InitSetup /\ [][NextSetup]_vars

-----------------------------------------------------------------------------
(* Properties of setup-integrations *)

(* in some run the user said yes to the overall prompt and to the prompt *)
(* of the step                                                           *)
SaidYes(step) ==
  \E i \in 1..Len(events) : \E j \in 1..Len(events) :
    /\ events[i].run = events[j].run
    /\ events[i].question = "proceed" /\ events[i].yes
    /\ events[j].question = step /\ events[j].yes

(* run changes files only after a yes to both prompts *)
ChangesOnlyOnYes ==
  /\ files.config # arg.config => SaidYes("aliases")
  /\ (files.dir # arg.dir \/ files.commands # arg.commands) => SaidYes("claude")

(* what setupShellAliases never does: change a file that has the alias *)
(* line, or create a file                                              *)
AdditiveOnly ==
  \A n \in ConfigNames :
    /\ (arg.config[n].exists /\ ContainsExact(arg.config[n].content, AliasLine))
         => files.config[n] = arg.config[n]
    /\ ~arg.config[n].exists => files.config[n] = arg.config[n]

-----------------------------------------------------------------------------
(* The core as a whole: one call of one of its functions *)

Init == InitEscape \/ InitSanitize \/ InitValidate

Next == NextEscape \/ NextSanitize \/ NextValidate

Spec == Init /\ [][Next]_vars

=============================================================================
